---- MODULE Spec2Model ----
(***************************************************************************)
(* A model of the orchestration core of monitoring-ai:                     *)
(*   - invokeAgent, the bounded tool-calling loop with citation tracking   *)
(*     and usage tracking (graphs/src/utils/settings.ts), under Spec;      *)
(*   - EmbeddingController.addDocumentsFromFiles, the ingestion pipeline   *)
(*     with its duplicate policy (unnamed/part_003), under SpecIngest.     *)
(***************************************************************************)
EXTENDS Integers, Sequences, FiniteSets, TLC

VARIABLES
    \* ---- invokeAgent ----
    params,            \* the parameters of the run: tools, systemPrompt, nodeName, reportsUsage
    pc,                \* position in invokeAgent
    allMessages,       \* the message history
    iteration,         \* the loop counter
    pendingCalls,      \* tool calls of the current response not yet executed
    citations,         \* run-wide citation list
    pendingCitations,  \* ids of the citations waiting to be linked
    citationIdCounter,
    usageEntries,      \* run-scoped usage accumulator
    invocations,       \* calls made to the model capability, in order
    toolRuns,          \* tool_call ids for which tool.invoke was called, in order
    result,            \* the value invokeAgent returned
    \* ---- addDocumentsFromFiles ----
    store,             \* the vector store: a set of chunk records
    clock,             \* Date.now()
    call,              \* per caller, its running or last ingestion call
    outcome,           \* per caller, what its last finished call returned or threw
    storeOps,          \* per caller, the vector-store operations of that call, in order
    controller,        \* isInitialized, a deleteCollection under way, the last public call
    used,              \* files ingested, store failures and public calls so far;
                       \* whether every call used skip
    \* ---- queryDocuments ----
    search,            \* the running or last query call
    \* ---- chunkText ----
    chunking,          \* the running or last chunking call
    \* ---- generateDocumentHash ----
    hashing,           \* the calls of generateDocumentHash made so far
    \* ---- createRetrieverTool ----
    retrieval,         \* the running or last call of the search_knowledge_base tool
    \* ---- invokeGraph ----
    graph              \* the graph instances, their TokensController and their runs

agentVars == <<params, pc, allMessages, iteration, pendingCalls, citations,
               pendingCitations, citationIdCounter, usageEntries, invocations,
               toolRuns, result>>
ingestVars == <<store, clock, call, outcome, storeOps, controller, used>>
vars == <<agentVars, ingestVars, search, chunking, hashing, retrieval, graph>>

\* ------------------------------------------------------------------------
\* Bounds
\* ------------------------------------------------------------------------
\* Most tool calls one model response carries.
MaxToolCalls == 2
\* Most tool calls of one run that are anything but a retrieval answered by
\* a diagnostic string (a failing call, another tool, a retrieval with documents).
MaxDeviations == 2
\* Most files handed to addDocumentsFromFiles, over all its calls; a store
\* failure, a call of another public method and an overlapping call each
\* take the place of one file.
MaxFiles == 3
\* Most vector-store operations that fail.
MaxFaults == 1
\* Most calls of the controller's other public methods (close, addDocuments,
\* deleteDocuments, deleteCollection) and calls that overlap another.
MaxOps == 1
\* Most results the store returns for one similarity search.
MaxResults == 3
MaxLen == 5
MaxChunkSize == 3
MaxSteps == 6
\* Most runs of invokeGraph, and most usage entries recorded over all runs.
MaxRuns == 3
MaxEntries == 2

\* ------------------------------------------------------------------------
\* invokeAgent: constants and inputs
\* ------------------------------------------------------------------------
maxIterations == 5
RETRIEVER_TOOL_NAME == "search_knowledge_base"
CALCULATOR == "calculator"

\* An absent (undefined) value is the empty tuple, a present one a 1-tuple.
Undefined == <<>>
Some(x) == <<x>>
NoId == <<>>

\* The tool sets of a run: additionalTools first, the retriever tool last.
ToolSets == { <<>>, <<RETRIEVER_TOOL_NAME>>, <<CALCULATOR, RETRIEVER_TOOL_NAME>> }
\* The tool names a model may request; one not in the run's tool set is unknown.
ToolNames == { RETRIEVER_TOOL_NAME, CALCULATOR }

\* The documents a retrieval can return: content and metadata.filename
\* ("undefined" when the metadata holds no filename).
Doc(content, filename) == [content |-> content, filename |-> filename]
\* The retrieval results: a document alone; and a result that holds a
\* document of the same content and no filename twice, around a document of
\* the same filename and other content.
DocLists == { <<Doc("c1", "f1")>>,
              <<Doc("c1", "undefined"), Doc("c2", "f1"), Doc("c1", "undefined")>> }

SeqsUpTo(S, n) == UNION { [1..k -> S] : k \in 0..n }

\* What tool.invoke can do. The retriever tool catches its own failures
\* (embedding.retriever-tool.ts:76-161): it returns a diagnostic string, which
\* is no JSON array, or the JSON of a document list. Another tool returns a
\* string or throws.
ToolOutcomes(name) ==
    IF name = RETRIEVER_TOOL_NAME
    THEN { [kind |-> "text", docs |-> <<>>] }
         \cup { [kind |-> "documents", docs |-> ds] : ds \in DocLists }
    ELSE { [kind |-> "throws", docs |-> <<>>], [kind |-> "text", docs |-> <<>>] }

\* A message: content is the kind of its text; docs are the documents a
\* tool result lists when its text is the JSON of a document list.
Message(role, id, calls, callId, name, content) ==
    [role |-> role, id |-> id, tool_calls |-> calls, tool_call_id |-> callId,
     name |-> name, content |-> content, docs |-> <<>>]

SystemMessage == Message("system", NoId, <<>>, NoId, "", "prompt")
HumanMessage == Message("human", <<"human", 0, 0>>, <<>>, NoId, "", "question")

Last(s) == s[Len(s)]

Range(s) == { s[i] : i \in DOMAIN s }

\* buildMessages: the system prompt, when given, precedes the input messages.
buildMessages(systemPrompt, messages) ==
    IF systemPrompt THEN <<SystemMessage>> \o messages ELSE messages

\* The model response of iteration it requesting the tools named in calls.
\* An id is what the provider assigns; the loop reads it only on a response
\* without tool calls.
Response(it, calls, hasId) ==
    Message("ai", IF hasId THEN <<"ai", it, 0>> ELSE NoId,
            [k \in DOMAIN calls |-> [id |-> <<"call", it, k>>, name |-> calls[k]]],
            NoId, "", "text")

\* trackUsage: one entry when nodeName, usage_metadata and the controller are there.
trackUsage(entries, iter) ==
    IF params.nodeName /\ params.reportsUsage
    THEN Append(entries, [nodeName |-> "node", invokeMethod |-> "invokeAgent",
                          iteration |-> iter])
    ELSE entries

\* A variant of the `exists` test that compares the content alone.
CitationExistsByContent(cits, doc) ==
    \E i \in DOMAIN cits : cits[i].content = doc.content

\* The `exists` test of extractCitations: same content and same metadata.filename.
CitationExists(cits, doc) ==
    \E i \in DOMAIN cits :
        cits[i].content = doc.content /\ cits[i].filename = doc.filename

\* The loop body of extractCitations over the parsed documents, left to right.
\* st = [citations, pending, counter].
RECURSIVE AddCitations(_, _, _)
AddCitations(st, docs, iter) ==
    IF docs = <<>> THEN st
    ELSE LET doc == Head(docs)
             next == IF CitationExists(st.citations, doc) THEN st
                     ELSE LET c == [id |-> st.counter, content |-> doc.content,
                                    filename |-> doc.filename,
                                    usedInIteration |-> iter,
                                    usedByMessageId |-> NoId]
                          IN [citations |-> Append(st.citations, c),
                              pending |-> Append(st.pending, c.id),
                              counter |-> st.counter + 1]
         IN AddCitations(next, Tail(docs), iter)

\* extractCitations: only the retriever tool's result is read; a result that
\* is no JSON array (a diagnostic string) adds nothing.
extractCitations(st, toolName, toolResult, iter) ==
    IF toolName # RETRIEVER_TOOL_NAME THEN st
    ELSE IF toolResult.kind = "documents" THEN AddCitations(st, toolResult.docs, iter)
    ELSE st

\* linkPendingCitations: every pending citation gets messageId; pending is cleared.
linkPendingCitations(st, messageId) ==
    IF Len(st.pending) > 0
    THEN [st EXCEPT
            !.citations = [i \in DOMAIN st.citations |->
                IF st.citations[i].id \in Range(st.pending)
                THEN [st.citations[i] EXCEPT !.usedByMessageId = messageId]
                ELSE st.citations[i]],
            !.pending = <<>>]
    ELSE st

\* The guard `if (message.id)` in front of linkPendingCitations.
LinkIfId(st, message) ==
    IF message.id # NoId THEN linkPendingCitations(st, message.id) ELSE st

CitationState == [citations |-> citations, pending |-> pendingCitations,
                  counter |-> citationIdCounter]

\* new AIMessage(fields): an assistant message with the content, name, id and
\* tool_calls of the object it is built from; a tool_call_id is not a field
\* of an AIMessage.
AIMessage(message) == [message EXCEPT !.role = "ai", !.tool_call_id = NoId]

StructuredResponse == Message("ai", NoId, <<>>, NoId, "", "structured")

\* A variant that hands the list out as it is, empty or not.
OptionalListAsIs(list) == Some(list)

\* `list.length > 0 ? list : undefined`
OptionalList(list) == IF Len(list) > 0 THEN Some(list) ELSE Undefined

\* createResult: the returned record.
createResult(msgs, response, excludeSystemMessage, cits, entries, structured) ==
    LET outputMessages == IF excludeSystemMessage THEN Tail(msgs) ELSE msgs
    IN IF structured
       THEN [returned |-> TRUE, messages |-> outputMessages,
             response |-> StructuredResponse, structuredData |-> TRUE,
             citations |-> OptionalList(cits), usagePerNode |-> OptionalList(entries)]
       ELSE [returned |-> TRUE, messages |-> outputMessages,
             response |-> AIMessage(response), structuredData |-> FALSE,
             citations |-> OptionalList(cits), usagePerNode |-> OptionalList(entries)]

\* A variant of the extraction that is given the output messages.
ResultInvocationsOverOutput(invs, msgs, excludeSystemMessage, structured) ==
    IF structured
    THEN Append(invs, [kind |-> "structured", iteration |-> 0,
                       over |-> IF excludeSystemMessage THEN Tail(msgs) ELSE msgs])
    ELSE invs

\* The model invocation createResult makes through extractStructuredData:
\* it is given allMessages, not outputMessages.
ResultInvocations(invs, msgs, excludeSystemMessage, structured) ==
    IF structured
    THEN Append(invs, [kind |-> "structured", iteration |-> 0, over |-> msgs])
    ELSE invs

NoResult == [returned |-> FALSE, messages |-> <<>>, response |-> StructuredResponse,
             structuredData |-> FALSE, citations |-> Undefined,
             usagePerNode |-> Undefined]

\* A variant that pushes the tool message without the call's id.
ToolMessageWithoutCallId(toolCall, name, toolResult) ==
    [Message("tool", NoId, <<>>, NoId, name, toolResult.kind)
        EXCEPT !.docs = toolResult.docs]

\* The object executeToolCall pushes: role, content, tool_call_id and, for a
\* result, name; it has no id.
ToolMessage(toolCall, name, toolResult) ==
    [Message("tool", NoId, <<>>, toolCall.id, name, toolResult.kind)
        EXCEPT !.docs = toolResult.docs]

NotFound == [kind |-> "not_found", docs |-> <<>>]
ExecutionError == [kind |-> "error", docs |-> <<>>]

\* A variant of the for loop that gives up the response's remaining calls
\* when one fails.
AfterToolCallAbort(calls, failed) == IF failed THEN <<>> ELSE Tail(calls)

\* The for loop over response.tool_calls goes on to the next call whether or
\* not the call before it failed.
AfterToolCall(calls, failed) == Tail(calls)

\* A variant of the loop condition that is off by one.
LoopContinuesInclusive(it) == it <= maxIterations

\* The loop condition.
LoopContinues(it) == it < maxIterations

\* A variant that tests only `!response.tool_calls`: an empty list passes.
hasToolCallsField(response) == TRUE

\* `!response.tool_calls || response.tool_calls.length === 0`, negated.
hasToolCalls(response) == Len(response.tool_calls) > 0

\* ------------------------------------------------------------------------
\* invokeAgent: the state machine
\* ------------------------------------------------------------------------
\* structuredDataAttributes is read only where the result is built; its value
\* is drawn there.
\* usage_metadata is read only when nodeName is set (trackUsage's && chain).
Params == { p \in [tools : ToolSets, systemPrompt : BOOLEAN,
                   nodeName : BOOLEAN, reportsUsage : BOOLEAN] :
              ~p.nodeName => p.reportsUsage }

AgentInit ==
    /\ params \in Params
    /\ pc = "start"
    /\ allMessages = <<>>
    /\ iteration = 0
    /\ pendingCalls = <<>>
    /\ citations = <<>>
    /\ pendingCitations = <<>>
    /\ citationIdCounter = 0
    /\ usageEntries = <<>>
    /\ invocations = <<>>
    /\ toolRuns = <<>>
    /\ result = NoResult

\* Tools and message history are built; the run takes the no-tools path or
\* binds the tools and enters the loop.
BuildTools ==
    /\ pc = "start"
    /\ allMessages' = buildMessages(params.systemPrompt, <<HumanMessage>>)
    /\ pc' = IF Len(params.tools) = 0 THEN "direct" ELSE "loop"
    /\ UNCHANGED <<params, iteration, pendingCalls, citations, pendingCitations,
                   citationIdCounter, usageEntries, invocations, toolRuns, result>>

\* No tools, structuredDataAttributes given: one schema-constrained call.
InvokeDirectStructured ==
    /\ pc = "direct"
    /\ invocations' = Append(invocations, [kind |-> "structured", iteration |-> 0,
                                            over |-> allMessages])
    /\ result' = [returned |-> TRUE, messages |-> <<StructuredResponse>>,
                  response |-> StructuredResponse, structuredData |-> TRUE,
                  citations |-> Undefined, usagePerNode |-> OptionalList(usageEntries)]
    /\ pc' = "done"
    /\ UNCHANGED <<params, allMessages, iteration, pendingCalls, citations,
                   pendingCitations, citationIdCounter, usageEntries, toolRuns>>

\* No tools, no schema: one plain call, tracked without an iteration number.
InvokeDirectPlain ==
    /\ pc = "direct"
    /\ \E hasId \in BOOLEAN :
        LET response == Response(0, <<>>, hasId)
            entries == trackUsage(usageEntries, Undefined)
        IN /\ invocations' = Append(invocations, [kind |-> "plain", iteration |-> 0,
                                                   over |-> allMessages])
           /\ usageEntries' = entries
           /\ result' = [returned |-> TRUE, messages |-> <<response>>,
                         response |-> AIMessage(response), structuredData |-> FALSE,
                         citations |-> Undefined, usagePerNode |-> OptionalList(entries)]
    /\ pc' = "done"
    /\ UNCHANGED <<params, allMessages, iteration, pendingCalls, citations,
                   pendingCitations, citationIdCounter, toolRuns>>

ToolMessages == { i \in DOMAIN allMessages : allMessages[i].role = "tool" }

\* The tool calls so far that count against MaxDeviations.
Deviations ==
    Cardinality({ i \in ToolMessages :
        ~(allMessages[i].name = RETRIEVER_TOOL_NAME /\ allMessages[i].content = "text") })
Others(cs) == Cardinality({ k \in DOMAIN cs : cs[k].name # RETRIEVER_TOOL_NAME })

\* The tool-call lists a response of the next iteration may carry; one
\* response of a run carries more than one tool call.
CallLists ==
    { cs \in SeqsUpTo(ToolNames, MaxToolCalls) :
        /\ Len(cs) > 1 => Cardinality(ToolMessages) = iteration
        /\ Deviations + Others([k \in DOMAIN cs |-> [name |-> cs[k]]]) <= MaxDeviations }

\* The outcomes of running a registered tool that the run's bounds leave open.
OpenOutcomes(name) ==
    { o \in ToolOutcomes(name) :
        (name = RETRIEVER_TOOL_NAME /\ o.kind # "text")
            => Deviations + Others(Tail(pendingCalls)) < MaxDeviations }

\* One loop iteration up to the tool calls: the tool-bound model is invoked,
\* usage tracked, the response appended. A response without tool calls ends
\* the run: pending citations are linked to it and the result is created.
ModelCall ==
    /\ pc = "loop"
    /\ LoopContinues(iteration)
    /\ \E calls \in CallLists, hasId \in BOOLEAN, structured \in BOOLEAN :
        /\ (calls # <<>> => hasId /\ structured)
        /\ LET it == iteration + 1
               response == Response(it, calls, hasId)
               msgs == Append(allMessages, response)
               entries == trackUsage(usageEntries, Some(it))
               invs == Append(invocations, [kind |-> "tools", iteration |-> it,
                                            over |-> allMessages])
           IN /\ iteration' = it
              /\ usageEntries' = entries
              /\ allMessages' = msgs
              /\ IF ~hasToolCalls(response)
                 THEN LET st == LinkIfId(CitationState, response)
                      IN /\ citations' = st.citations
                         /\ pendingCitations' = st.pending
                         /\ invocations' = ResultInvocations(invs, msgs, params.systemPrompt,
                                                            structured)
                         /\ result' = createResult(msgs, response, params.systemPrompt,
                                                   st.citations, entries, structured)
                         /\ pendingCalls' = <<>>
                         /\ pc' = "done"
                 ELSE /\ pendingCalls' = response.tool_calls
                      /\ invocations' = invs
                      /\ pc' = IF response.tool_calls = <<>> THEN "loop" ELSE "tools"
                      /\ UNCHANGED <<citations, pendingCitations, result>>
    /\ UNCHANGED <<params, citationIdCounter, toolRuns>>

\* executeToolCall for the next tool call of the response.
ExecuteToolCall ==
    /\ pc = "tools"
    /\ pendingCalls # <<>>
    /\ LET toolCall == Head(pendingCalls)
       IN IF toolCall.name \notin Range(params.tools)
          THEN /\ allMessages' = Append(allMessages, ToolMessage(toolCall, "", NotFound))
               /\ pendingCalls' = AfterToolCall(pendingCalls, TRUE)
               /\ UNCHANGED <<citations, pendingCitations, citationIdCounter, toolRuns>>
          ELSE \E toolResult \in OpenOutcomes(toolCall.name) :
                /\ toolRuns' = Append(toolRuns, toolCall.id)
                /\ IF toolResult.kind = "throws"
                   THEN /\ allMessages' = Append(allMessages,
                                          ToolMessage(toolCall, "", ExecutionError))
                        /\ pendingCalls' = AfterToolCall(pendingCalls, TRUE)
                        /\ UNCHANGED <<citations, pendingCitations, citationIdCounter>>
                   ELSE LET st == extractCitations(CitationState, toolCall.name,
                                                   toolResult, iteration)
                        IN /\ citations' = st.citations
                           /\ pendingCitations' = st.pending
                           /\ citationIdCounter' = st.counter
                           /\ allMessages' = Append(allMessages,
                                  ToolMessage(toolCall, toolCall.name, toolResult))
                           /\ pendingCalls' = AfterToolCall(pendingCalls, FALSE)
    /\ pc' = IF pendingCalls' = <<>> THEN "loop" ELSE "tools"
    /\ UNCHANGED <<params, iteration, usageEntries, invocations, result>>

\* The cap: the last message of the history stands in for the response.
MaxIterationsReached ==
    /\ pc = "loop"
    /\ ~LoopContinues(iteration)
    /\ \E structured \in BOOLEAN :
        LET finalMessage == Last(allMessages)
            st == LinkIfId(CitationState, finalMessage)
        IN /\ citations' = st.citations
           /\ pendingCitations' = st.pending
           /\ invocations' = ResultInvocations(invocations, allMessages,
                                                 params.systemPrompt, structured)
           /\ result' = createResult(allMessages, finalMessage, params.systemPrompt,
                                     st.citations, usageEntries, structured)
    /\ pc' = "done"
    /\ UNCHANGED <<params, allMessages, iteration, pendingCalls, citationIdCounter,
                   usageEntries, toolRuns>>

\* ------------------------------------------------------------------------
\* addDocumentsFromFiles: inputs and helpers
\* ------------------------------------------------------------------------
DuplicateHandlings == { "skip", "replace", "error", "allow" }

\* A text whose first paragraph is blank, and a text that is blank.
LeadingBlank == "  \n\nabcdef"
Blank == "  "

\* The sources that are strings: a local path and a URL. A Buffer source is
\* written "", its bytes being the content of the file.
PathSource == "/d/ab"
UrlSource == "https://h/cd"
\* `typeof file.source === 'string'`
IsString(source) == source # ""
\* `file.source.startsWith('http://') || file.source.startsWith('https://')`
IsUrl(source) == source = UrlSource

\* A file: the bytes its source holds or yields, filename and idPrefix ("" is
\* an absent filename or idPrefix), its source and its DocumentType.
File(content, filename, idPrefix, source, type) ==
    [content |-> content, filename |-> filename, idPrefix |-> idPrefix,
     source |-> source, type |-> type]
FileMenu == { File("ab", "f", "", "", "txt"), File("ab", "", "", PathSource, "txt"),
              File(LeadingBlank, "f", "p", "", "txt"), File(Blank, "g", "", "", "txt"),
              File("cd", "g", "p", UrlSource, "txt"),
              File("ab", "f", "", "", "json") }
\* The file lists of a call, of at most n files.
FileLists(n) == SeqsUpTo(FileMenu, n)

\* generateDocumentHash: the input of the digest, filename and "::" in front
\* of the content when a filename is given; SHA-256 is taken as injective.
generateDocumentHash(content, filename) ==
    IF filename # "" THEN filename \o "::" \o content ELSE content

\* What parseDocument answers: a text, or the message of what it threw.
Parsed(text) == [thrown |-> "", text |-> text]
ParseThrew(error) == [thrown |-> error, text |-> ""]

\* The message of JSON.parse for the contents of FileMenu, none of which is
\* a JSON text.
JsonSyntaxError(content) ==
    CASE content = Blank -> "Unexpected end of JSON input"
      [] content = "cd" -> "Unexpected token 'c', \"cd\" is not valid JSON"
      [] OTHER -> "Unexpected token 'a', \"" \o content \o "\" is not valid JSON"

\* parseDocument of a buffer: the text of a txt or md file is its content,
\* parseJSON throws what JSON.parse throws, and a type outside DocumentType
\* is refused. (The loaders of the binary types are not modelled; no file of
\* FileMenu has such a type.)
parseDocument(content, type) ==
    CASE type \in { "txt", "md" } -> Parsed(content)
      [] type = "json" -> ParseThrew(JsonSyntaxError(content))
      [] OTHER -> ParseThrew("Unsupported document type: " \o type)

\* What the runtime reports when a read or write of the file system, or a
\* transfer, fails.
IoFailure == "i/o failure"
\* `Failed to fetch URL: ${file.source} - ${response.statusText}`
FetchNotOk(source) == "Failed to fetch URL: " \o source \o " - Not Found"

\* `!text || text.trim().length === 0`
HasNoText(text) == text \in { "", Blank }

\* chunkText with chunkingOptions {strategy: recursive, chunkSize: 4,
\* chunkOverlap: 1} on the texts of FileMenu. "ab" and "cd" fit one chunk. For
\* LeadingBlank splitRecursive splits at "\n\n" into "  " and "abcdef"; the
\* second part overflows, so the first is pushed trimmed, as "", and
\* "abcdef" falls through the separators to "abcd", "ef"; addOverlapToChunks
\* keeps chunks[0] and joins the others to the tail of their predecessor.
chunkText(text) ==
    CASE text = "ab" -> <<"ab">>
      [] text = "cd" -> <<"cd">>
      [] text = LeadingBlank -> <<"", "abcd", "d ef">>
      [] OTHER -> <<>>

\* `file.idPrefix || file.filename || file_${fileIndex}`
IdPrefix(file, fileIndex) ==
    IF file.idPrefix # "" THEN file.idPrefix
    ELSE IF file.filename # "" THEN file.filename
    ELSE "file_" \o ToString(fileIndex)

\* `${idPrefix}_${timestamp}_chunk_${chunkIndex}`
ChunkId(idPrefix, timestamp, chunkIndex) ==
    idPrefix \o "_" \o ToString(timestamp) \o "_chunk_" \o ToString(chunkIndex)

\* The document entries of one file, one per chunk.
FileDocuments(file, fileIndex, timestamp) ==
    LET chunks == chunkText(parseDocument(file.content, file.type).text)
    IN [k \in 1..Len(chunks) |->
          [id |-> ChunkId(IdPrefix(file, fileIndex), timestamp, k - 1),
           content |-> chunks[k],
           documentHash |-> generateDocumentHash(file.content, file.filename),
           filename |-> file.filename,
           fileIndex |-> fileIndex, chunkIndex |-> k - 1,
           totalChunks |-> Len(chunks)]]

\* findDocumentsByHash when the store answers: the ids of the chunks with
\* that documentHash, those with an empty id or empty content left out.
findDocumentsByHash(st, documentHash) ==
    { c.id : c \in { d \in st : /\ d.documentHash = documentHash
                                 /\ d.id # "" /\ d.content # "" } }

\* `existingDocs.length > 0` under DuplicateHandling.skip.
SkipsDuplicate(duplicateHandling, existingDocs) ==
    duplicateHandling = "skip" /\ existingDocs # {}

\* `duplicateHandling !== DuplicateHandling.allow`
ChecksDuplicates(duplicateHandling) == duplicateHandling # "allow"

\* `existingDocs.length > 0` under DuplicateHandling.error.
ThrowsOnDuplicate(duplicateHandling, existingDocs) ==
    duplicateHandling = "error" /\ existingDocs # {}

\* findDocumentsByHash with its catch: a failed query answers [].
QueryAnswer(st, documentHash, queryFails) ==
    IF queryFails THEN {} ELSE findDocumentsByHash(st, documentHash)

\* A variant of the empty-batch test that never holds.
NothingToAddNever(docs) == FALSE

\* `allDocuments.length === 0`
NothingToAdd(docs) == Len(docs) = 0

\* The store's upsert, document by document: a document replaces the stored
\* one of the same id.
RECURSIVE Upsert(_, _)
Upsert(st, docs) ==
    IF docs = <<>> THEN st
    ELSE Upsert({ c \in st : c.id # Head(docs).id } \cup { Head(docs) }, Tail(docs))

HasDuplicateIds(docs) ==
    \E i, j \in DOMAIN docs : i # j /\ docs[i].id = docs[j].id

\* The two callers of the controller's addDocumentsFromFiles. Each awaits
\* its call before it makes the next; the calls of the two may overlap, the
\* method being async and the controller holding no lock. Caller b ingests
\* single files, while a call of caller a is under way.
Callers == { "a", "b" }

IdleCall ==
    [phase |-> "idle", files |-> <<>>, duplicateHandling |-> "skip", timestamp |-> 0,
     fileIndex |-> 0, allDocuments |-> <<>>, skippedCount |-> 0, replacedCount |-> 0,
     documentsToReplace |-> {}, storeAtStart |-> {}, log |-> <<>>, foreign |-> FALSE]

NoOutcome == [status |-> "none", added |-> 0, skipped |-> 0, replaced |-> 0, error |-> ""]
Returned(added, skipped, replaced) ==
    [status |-> "returned", added |-> added, skipped |-> skipped,
     replaced |-> replaced, error |-> ""]
Threw(error) ==
    [status |-> "threw", added |-> 0, skipped |-> 0, replaced |-> 0, error |-> error]

\* The message of ensureInitialized.
NotInitialized == "EmbeddingController is not initialized. Call initialize() first."

\* The catch of addDocumentsFromFiles wraps what is thrown inside its try.
FromFiles(error) == "Failed to add documents from files: " \o error

\* A variant that counts the distinct ids of the batch.
AddedCountDistinctIds(allDocuments) ==
    Cardinality({ allDocuments[k].id : k \in DOMAIN allDocuments })

\* `added: allDocuments.length`
AddedCount(allDocuments) == Len(allDocuments)

\* What the loop did with a file.
Decided(entry, decision) == [entry EXCEPT !.decision = decision]

StoreOp(op, ids, failed) == [op |-> op, ids |-> ids, failed |-> failed]
Ids(docs) == { docs[k].id : k \in DOMAIN docs }

\* Date.now(): the millisecond read last, or a later one.
Now == { clock, clock + 1 }

\* A document a caller of addDocuments made itself: "" is an absent id or
\* an absent metadata.documentHash.
EmbeddingDocument(id, content, documentHash) ==
    [id |-> id, content |-> content, documentHash |-> documentHash, filename |-> "",
     fileIndex |-> 0, chunkIndex |-> 0, totalChunks |-> 0]
\* The document lists handed to the public addDocuments.
DocumentLists ==
    { <<>>,
      << EmbeddingDocument("", "x", "") >>,
      << EmbeddingDocument("", "x", ""),
         EmbeddingDocument("mine", "y", generateDocumentHash("ab", "f")) >> }
\* `documents.map((doc, index) => doc.id || doc_${Date.now()}_${index})`
WithIds(documents, now) ==
    [k \in DOMAIN documents |->
        IF documents[k].id # "" THEN documents[k]
        ELSE [documents[k] EXCEPT
                !.id = "doc_" \o ToString(now) \o "_" \o ToString(k - 1)]]

\* The controller after construction: not initialized. `op` is the call of
\* addDocuments, deleteDocuments or deleteCollection that is awaiting the
\* store, with the ids or documents it handed over; `last` is how the last
\* such call ended.
NewController ==
    [ready |-> FALSE, op |-> "none", ids |-> {}, documents |-> <<>>, last |-> "none"]

\* Every in-flight or finished call but that of s has seen another party
\* change the store.
Disturbed(calls, s, changed) ==
    [t \in Callers |->
        IF t # s /\ changed /\ calls[t].phase # "idle"
        THEN [calls[t] EXCEPT !.foreign = TRUE] ELSE calls[t]]

\* ------------------------------------------------------------------------
\* addDocumentsFromFiles: from one await to the next
\* ------------------------------------------------------------------------
\* The call goes on at an await, fails, or returns.
GoesOn(c, phase) == [call |-> [c EXCEPT !.phase = phase], outcome |-> NoOutcome]
Fails(c, error) == [call |-> [c EXCEPT !.phase = "threw"], outcome |-> Threw(error)]
Returns(c, added) ==
    [call |-> [c EXCEPT !.phase = "returned"],
     outcome |-> Returned(added, c.skippedCount, c.replacedCount)]

\* The loop body from the content buffer to its next await: unless the
\* policy is allow, findDocumentsByHash is called, whose ensureInitialized is
\* in front of its try, and the query is awaited; under allow parseDocument
\* is awaited.
CheckDuplicate(c, ready) ==
    IF ChecksDuplicates(c.duplicateHandling)
    THEN IF ready THEN GoesOn(c, "query") ELSE Fails(c, FromFiles(NotInitialized))
    ELSE GoesOn(c, "parse")

\* The loop body up to its first await: a URL is fetched, for a path
\* fs/promises is imported, and a Buffer is the content as it is.
EnterFile(c, ready) ==
    LET file == c.files[c.fileIndex + 1]
    IN IF IsString(file.source)
       THEN GoesOn(c, IF IsUrl(file.source) THEN "fetch" ELSE "import")
       ELSE CheckDuplicate(c, ready)

\* `await this.addDocuments(allDocuments)`, up to the store's upsert; a call
\* without documents returns before.
AfterDelete(c, ready) ==
    IF NothingToAdd(c.allDocuments) THEN Returns(c, 0)
    ELSE IF ready THEN GoesOn(c, "add")
    ELSE Fails(c, FromFiles(NotInitialized))

\* After the loop: `await this.deleteDocuments(documentsToReplace)`, up to
\* the store's delete, when ids are queued for replacement.
AfterLoop(c, ready) ==
    IF c.documentsToReplace # {}
    THEN IF ready THEN GoesOn(c, "delete") ELSE Fails(c, FromFiles(NotInitialized))
    ELSE AfterDelete(c, ready)

\* The loop goes to its next file, or ends.
NextFile(c, ready) ==
    LET next == [c EXCEPT !.fileIndex = @ + 1]
    IN IF next.fileIndex < Len(next.files) THEN EnterFile(next, ready)
       ELSE AfterLoop(next, ready)

\* ------------------------------------------------------------------------
\* The EmbeddingController: the state machine
\* ------------------------------------------------------------------------
IngestIdle ==
    /\ store = {}
    /\ clock = 0
    /\ call = [s \in Callers |-> IdleCall]
    /\ outcome = [s \in Callers |-> NoOutcome]
    /\ storeOps = [s \in Callers |-> <<>>]
    /\ controller = NewController
    /\ used = [files |-> 0, faults |-> 0, ops |-> 0, onlySkip |-> TRUE]

\* The awaits of the file loop, and those of the whole call.
LoopAwaits == { "fetch", "arrayBuffer", "import", "readFile", "query", "parse" }
InLoop(s) == call[s].phase \in LoopAwaits
InFlight(s) == call[s].phase \in LoopAwaits \cup { "delete", "add" }

\* What is left of the behaviour's budget, and whether it has room for one
\* more store failure or one more other call.
Left == MaxFiles - (used.files + used.faults + used.ops)
MayFail == used.faults < MaxFaults /\ Left > 0
MayCall == used.ops < MaxOps /\ Left > 0

\* initialize(config): the vector store of the collection is opened.
Initialize ==
    /\ ~controller.ready
    /\ controller' = [controller EXCEPT !.ready = TRUE]
    /\ UNCHANGED <<store, clock, call, outcome, storeOps, used>>

\* close(): the controller forgets its store; the collection stays.
Close ==
    /\ controller.ready
    /\ MayCall
    /\ used' = [used EXCEPT !.ops = @ + 1]
    /\ controller' = [controller EXCEPT !.ready = FALSE]
    /\ UNCHANGED <<store, clock, call, outcome, storeOps>>

\* A call begins: ensureInitialized, then an empty file list is refused;
\* otherwise the accumulators are set up, the timestamp is read and the loop
\* runs up to the first await of its first file. Caller b is the one whose
\* call overlaps a call of caller a.
BeginCall(s) ==
    /\ ~InFlight(s)
    /\ s = "b" => (InFlight("a") /\ MayCall /\ controller.ready)
    /\ \E files \in FileLists(Left),
          duplicateHandling \in DuplicateHandlings, now \in Now :
        /\ (used.files = 0 \/ ~controller.ready \/ Len(files) = 0) => now = clock
        /\ s = "b" => Len(files) = Len(<<s>>)
        /\ IF ~controller.ready
           THEN /\ duplicateHandling = "skip" /\ files = <<>>
                /\ call' = [call EXCEPT ![s] = [IdleCall EXCEPT !.phase = "threw",
                                                                !.storeAtStart = store]]
                /\ outcome' = [outcome EXCEPT ![s] = Threw(NotInitialized)]
                /\ UNCHANGED <<clock, used>>
           ELSE IF Len(files) = 0
           THEN /\ call' = [call EXCEPT ![s] =
                                [IdleCall EXCEPT !.phase = "threw",
                                                 !.duplicateHandling = duplicateHandling,
                                                 !.storeAtStart = store]]
                /\ outcome' = [outcome EXCEPT ![s] = Threw("No files provided")]
                /\ UNCHANGED <<clock, used>>
           ELSE LET begun == [IdleCall EXCEPT !.files = files,
                                              !.duplicateHandling = duplicateHandling,
                                              !.timestamp = now,
                                              !.storeAtStart = store]
                    next == EnterFile(begun, controller.ready)
                IN /\ call' = [call EXCEPT ![s] = next.call]
                   /\ outcome' = [outcome EXCEPT ![s] = next.outcome]
                   /\ clock' = now
                   /\ Len(files) + (IF s = "b" THEN 1 ELSE 0) <= Left
                   /\ used' = [used EXCEPT !.files = @ + Len(files),
                                           !.ops = IF s = "b" THEN @ + 1 ELSE @,
                                           !.onlySkip = @ /\ duplicateHandling = "skip"]
    /\ storeOps' = [storeOps EXCEPT ![s] = <<>>]
    /\ UNCHANGED <<store, controller>>

\* `await fetch(file.source)` answers or rejects, and a response that is not
\* ok is thrown; `await import('fs/promises')` answers. The body of the
\* response, or the file, is awaited next.
SourceAnswers(s) ==
    /\ call[s].phase \in { "fetch", "import" }
    /\ \E rejected \in BOOLEAN, ok \in BOOLEAN :
        LET c == call[s]
            file == c.files[c.fileIndex + 1]
            next == IF c.phase = "import" THEN GoesOn(c, "readFile")
                    ELSE IF rejected THEN Fails(c, FromFiles(IoFailure))
                    ELSE IF ~ok THEN Fails(c, FromFiles(FetchNotOk(file.source)))
                    ELSE GoesOn(c, "arrayBuffer")
        IN /\ c.phase = "import" => (~rejected /\ ok)
           /\ rejected => ok
           /\ (rejected \/ ~ok) => MayFail
           /\ used' = [used EXCEPT !.faults = IF rejected \/ ~ok THEN @ + 1 ELSE @]
           /\ call' = [call EXCEPT ![s] = next.call]
           /\ outcome' = [outcome EXCEPT ![s] = next.outcome]
    /\ UNCHANGED <<store, clock, controller, storeOps>>

\* `await response.arrayBuffer()` or `await readFile(file.source)` answers
\* with the bytes, or rejects: with the bytes the file is hashed and the
\* loop body runs on to its next await.
ContentAnswers(s) ==
    /\ call[s].phase \in { "arrayBuffer", "readFile" }
    /\ \E rejected \in BOOLEAN :
        LET c == call[s]
            next == IF rejected THEN Fails(c, FromFiles(IoFailure))
                    ELSE CheckDuplicate(c, controller.ready)
        IN /\ rejected => MayFail
           /\ used' = [used EXCEPT !.faults = IF rejected THEN @ + 1 ELSE @]
           /\ call' = [call EXCEPT ![s] = next.call]
           /\ outcome' = [outcome EXCEPT ![s] = next.outcome]
    /\ UNCHANGED <<store, clock, controller, storeOps>>

\* The store answers the duplicate query of the file at fileIndex, or the
\* query fails: the file is skipped, the call throws, or parseDocument is
\* awaited, the stored ids being queued under replace.
DuplicateCheckAnswers(s) ==
    /\ call[s].phase = "query"
    /\ \E queryFails \in BOOLEAN :
        /\ queryFails => MayFail
        /\ LET c == call[s]
               file == c.files[c.fileIndex + 1]
               documentHash == generateDocumentHash(file.content, file.filename)
               existingDocs == QueryAnswer(store, documentHash, queryFails)
               entry == [documentHash |-> documentHash, queried |-> TRUE,
                         queryFailed |-> queryFails, existingDocs |-> existingDocs,
                         stored |-> { d \in store : d.documentHash = documentHash },
                         decision |-> "pending"]
               replaces == c.duplicateHandling = "replace" /\ existingDocs # {}
               next ==
                 IF SkipsDuplicate(c.duplicateHandling, existingDocs)
                 THEN NextFile([c EXCEPT !.skippedCount = @ + 1,
                                         !.log = Append(@, Decided(entry, "duplicate"))],
                               controller.ready)
                 ELSE IF ThrowsOnDuplicate(c.duplicateHandling, existingDocs)
                 THEN Fails([c EXCEPT !.log = Append(@, Decided(entry, "throw"))],
                            FromFiles("Duplicate document found"))
                 ELSE GoesOn([c EXCEPT
                                !.documentsToReplace = IF replaces THEN @ \cup existingDocs ELSE @,
                                !.replacedCount = IF replaces THEN @ + 1 ELSE @,
                                !.log = Append(@, entry)],
                             "parse")
           IN /\ storeOps' = [storeOps EXCEPT ![s] =
                                 Append(@, StoreOp("get", existingDocs, queryFails))]
              /\ used' = [used EXCEPT !.faults = IF queryFails THEN @ + 1 ELSE @]
              /\ call' = [call EXCEPT ![s] = next.call]
              /\ outcome' = [outcome EXCEPT ![s] = next.outcome]
    /\ UNCHANGED <<store, clock, controller>>

\* parseDocument answers with the text of the file at fileIndex, or throws
\* (the parser, or the temporary file it works on): a file without text is
\* skipped, any other is chunked and its documents are pushed, and the loop
\* goes on; what parseDocument throws fails the call.
ParseAnswers(s) ==
    /\ call[s].phase = "parse"
    /\ \E ioFails \in BOOLEAN :
       LET c == call[s]
           fileIndex == c.fileIndex
           file == c.files[fileIndex + 1]
           queried == ChecksDuplicates(c.duplicateHandling)
           documentHash == generateDocumentHash(file.content, file.filename)
           entry == IF queried THEN c.log[Len(c.log)]
                    ELSE [documentHash |-> documentHash, queried |-> FALSE,
                          queryFailed |-> FALSE, existingDocs |-> {},
                          stored |-> { d \in store : d.documentHash = documentHash },
                          decision |-> "pending"]
           log == IF queried THEN SubSeq(c.log, 1, Len(c.log) - 1) ELSE c.log
           parsed == IF ioFails THEN ParseThrew(IoFailure)
                     ELSE parseDocument(file.content, file.type)
           text == parsed.text
           next ==
             IF parsed.thrown # ""
             THEN Fails([c EXCEPT !.log = Append(log, Decided(entry, "unparsed"))],
                        FromFiles(parsed.thrown))
             ELSE IF HasNoText(text)
             THEN NextFile([c EXCEPT !.skippedCount = @ + 1,
                                     !.log = Append(log, Decided(entry, "no_text"))],
                           controller.ready)
             ELSE NextFile([c EXCEPT
                              !.allDocuments = @ \o FileDocuments(file, fileIndex, c.timestamp),
                              !.log = Append(log, Decided(entry, "chunked"))],
                           controller.ready)
       IN /\ ioFails => MayFail
          /\ used' = [used EXCEPT !.faults = IF ioFails THEN @ + 1 ELSE @]
          /\ call' = [call EXCEPT ![s] = next.call]
          /\ outcome' = [outcome EXCEPT ![s] = next.outcome]
    /\ UNCHANGED <<store, clock, controller, storeOps>>

\* The store deletes the chunks queued for replacement, or fails; a call
\* that produced no document returns, any other goes on to addDocuments.
ReplaceDeleteAnswers(s) ==
    /\ call[s].phase = "delete"
    /\ \E deleteFails \in BOOLEAN :
        LET c == call[s]
        IN /\ deleteFails => MayFail
           /\ used' = [used EXCEPT !.faults = IF deleteFails THEN @ + 1 ELSE @]
           /\ storeOps' = [storeOps EXCEPT ![s] =
                             Append(@, StoreOp("delete", c.documentsToReplace, deleteFails))]
           /\ IF deleteFails
              THEN /\ call' = [call EXCEPT ![s] = [c EXCEPT !.phase = "threw"]]
                   /\ outcome' = [outcome EXCEPT ![s] =
                                    Threw(FromFiles("Failed to delete documents"))]
                   /\ UNCHANGED store
              ELSE LET st == { d \in store : d.id \notin c.documentsToReplace }
                       next == AfterDelete(c, controller.ready)
                   IN /\ store' = st
                      /\ call' = [Disturbed(call, s, st # store) EXCEPT ![s] = next.call]
                      /\ outcome' = [outcome EXCEPT ![s] = next.outcome]
    /\ UNCHANGED <<clock, controller>>

\* The store upserts the batch, or fails, and the call returns. A store that
\* is handed the same id twice in one batch may take the later document or
\* refuse the batch.
BatchAddAnswers(s) ==
    /\ call[s].phase = "add"
    /\ \E addFails \in BOOLEAN :
        LET c == call[s]
        IN /\ addFails => (HasDuplicateIds(c.allDocuments) \/ MayFail)
           /\ used' = [used EXCEPT !.faults =
                           IF addFails /\ ~HasDuplicateIds(c.allDocuments)
                           THEN @ + 1 ELSE @]
           /\ storeOps' = [storeOps EXCEPT ![s] =
                             Append(@, StoreOp("add", Ids(c.allDocuments), addFails))]
           /\ IF addFails
              THEN /\ call' = [call EXCEPT ![s] = [c EXCEPT !.phase = "threw"]]
                   /\ outcome' = [outcome EXCEPT ![s] =
                                    Threw(FromFiles("Failed to add documents"))]
                   /\ UNCHANGED store
              ELSE LET st == Upsert(store, c.allDocuments)
                       next == Returns(c, AddedCount(c.allDocuments))
                   IN /\ store' = st
                      /\ call' = [Disturbed(call, s, st # store) EXCEPT ![s] = next.call]
                      /\ outcome' = [outcome EXCEPT ![s] = next.outcome]
    /\ UNCHANGED <<clock, controller>>

\* The public addDocuments is called with documents of the caller's making:
\* ensureInitialized, the test for an empty list, the ids; then the store's
\* upsert is awaited.
AddDocuments ==
    /\ MayCall
    /\ controller.op = "none"
    /\ \E documents \in DocumentLists, now \in Now :
        /\ (~controller.ready \/ Len(documents) = 0) => now = clock
        /\ (\A k \in DOMAIN documents : documents[k].id # "") => now = clock
        /\ clock' = now
        /\ IF ~controller.ready
           THEN controller' = [controller EXCEPT !.last = NotInitialized]
           ELSE IF Len(documents) = 0
           THEN controller' = [controller EXCEPT !.last = "No documents provided"]
           ELSE controller' = [controller EXCEPT !.op = "add",
                                                 !.documents = WithIds(documents, now)]
    /\ used' = [used EXCEPT !.ops = @ + 1]
    /\ UNCHANGED <<store, call, outcome, storeOps>>

\* The store upserts the documents of the public addDocuments, or fails.
AddDocumentsAnswers ==
    /\ controller.op = "add"
    /\ \E addFails \in BOOLEAN :
        /\ addFails => MayFail
        /\ used' = [used EXCEPT !.faults = IF addFails THEN @ + 1 ELSE @]
        /\ IF addFails
           THEN /\ controller' = [controller EXCEPT !.op = "none", !.documents = <<>>,
                                                    !.last = "Failed to add documents"]
                /\ UNCHANGED <<store, call>>
           ELSE LET st == Upsert(store, controller.documents)
                IN /\ store' = st
                   /\ call' = Disturbed(call, "public", st # store)
                   /\ controller' = [controller EXCEPT !.op = "none", !.documents = <<>>,
                                                       !.last = "added"]
    /\ UNCHANGED <<clock, outcome, storeOps>>

\* The public deleteDocuments is called with no id or with the id of a
\* stored document: ensureInitialized, the test for an empty list; then the
\* store's delete is awaited.
DeleteDocuments ==
    /\ MayCall
    /\ controller.op = "none"
    /\ \E ids \in { {} } \cup { { d.id } : d \in store } :
        /\ ~controller.ready => ids = {}
        /\ IF ~controller.ready
           THEN controller' = [controller EXCEPT !.last = NotInitialized]
           ELSE IF ids = {}
           THEN controller' = [controller EXCEPT !.last = "No IDs provided"]
           ELSE controller' = [controller EXCEPT !.op = "delete", !.ids = ids]
    /\ used' = [used EXCEPT !.ops = @ + 1]
    /\ UNCHANGED <<store, clock, call, outcome, storeOps>>

\* The store deletes the ids of the public deleteDocuments, or fails.
DeleteDocumentsAnswers ==
    /\ controller.op = "delete"
    /\ \E deleteFails \in BOOLEAN :
        /\ deleteFails => MayFail
        /\ used' = [used EXCEPT !.faults = IF deleteFails THEN @ + 1 ELSE @]
        /\ IF deleteFails
           THEN /\ controller' = [controller EXCEPT !.op = "none", !.ids = {},
                                                    !.last = "Failed to delete documents"]
                /\ UNCHANGED <<store, call>>
           ELSE LET st == { d \in store : d.id \notin controller.ids }
                IN /\ store' = st
                   /\ call' = Disturbed(call, "public", st # store)
                   /\ controller' = [controller EXCEPT !.op = "none", !.ids = {},
                                                       !.last = "deleted"]
    /\ UNCHANGED <<clock, outcome, storeOps>>

\* The controller is un-initialised at the end of deleteCollection.
CollectionDeleted ==
    [ready |-> FALSE, op |-> "none", ids |-> {}, documents |-> <<>>,
     last |-> "collection deleted"]

\* deleteCollection is called: ensureInitialized, then the collection is
\* asked for all its documents.
DeleteCollection ==
    /\ MayCall
    /\ controller.op = "none"
    /\ used' = [used EXCEPT !.ops = @ + 1]
    /\ IF ~controller.ready
       THEN controller' = [controller EXCEPT !.last = NotInitialized]
       ELSE controller' = [controller EXCEPT !.op = "collection.get"]
    /\ UNCHANGED <<store, clock, call, outcome, storeOps>>

\* The collection reads the ids of all its documents, or fails. With ids
\* their delete is awaited next; without, nothing more is asked of the store,
\* and the controller is reset when the answer has arrived. A failure leaves
\* the controller initialized.
DeleteCollectionGet ==
    /\ controller.op = "collection.get"
    /\ \E getFails \in BOOLEAN :
        /\ getFails => MayFail
        /\ used' = [used EXCEPT !.faults = IF getFails THEN @ + 1 ELSE @]
        /\ LET ids == { d.id : d \in store }
           IN IF getFails
              THEN controller' = [controller EXCEPT !.op = "none",
                                                    !.last = "Failed to delete collection"]
              ELSE IF ids = {}
              THEN controller' = [controller EXCEPT !.op = "collection.reset"]
              ELSE controller' = [controller EXCEPT !.op = "collection.delete", !.ids = ids]
    /\ UNCHANGED <<store, clock, call, outcome, storeOps>>

\* The store deletes the fetched ids, or fails; the answer is under way.
DeleteCollectionDelete ==
    /\ controller.op = "collection.delete"
    /\ \E deleteFails \in BOOLEAN :
        /\ deleteFails => MayFail
        /\ used' = [used EXCEPT !.faults = IF deleteFails THEN @ + 1 ELSE @]
        /\ IF deleteFails
           THEN /\ controller' = [controller EXCEPT !.op = "none", !.ids = {},
                                                    !.last = "Failed to delete collection"]
                /\ UNCHANGED <<store, call>>
           ELSE LET st == { d \in store : d.id \notin controller.ids }
                IN /\ store' = st
                   /\ call' = Disturbed(call, "public", st # store)
                   /\ controller' = [controller EXCEPT !.op = "collection.reset", !.ids = {}]
    /\ UNCHANGED <<clock, outcome, storeOps>>

\* The last answer of the store arrives (of the delete, or of the get of an
\* empty collection): isInitialized, vectorStore and config are reset.
DeleteCollectionReset ==
    /\ controller.op = "collection.reset"
    /\ controller' = CollectionDeleted
    /\ UNCHANGED <<store, clock, call, outcome, storeOps, used>>

\* The agent at rest while the ingestion pipeline runs.
AgentIdle ==
    /\ params = [tools |-> <<>>, systemPrompt |-> FALSE, nodeName |-> FALSE,
                 reportsUsage |-> TRUE]
    /\ pc = "start"
    /\ allMessages = <<>>
    /\ iteration = 0
    /\ pendingCalls = <<>>
    /\ citations = <<>>
    /\ pendingCitations = <<>>
    /\ citationIdCounter = 0
    /\ usageEntries = <<>>
    /\ invocations = <<>>
    /\ toolRuns = <<>>
    /\ result = NoResult

\* ------------------------------------------------------------------------
\* queryDocuments
\* ------------------------------------------------------------------------
\* Scores and thresholds are in hundredths.
SearchStrictnesses == { "all_results", "relaxed", "balanced", "strict" }

\* SEARCH_STRICTNESS_LEVELS[level].minScore
StrictnessMinScore(level) ==
    CASE level = "all_results" -> 0
      [] level = "relaxed" -> 50
      [] level = "balanced" -> 70
      [] level = "strict" -> 85

\* The search methods; ip takes the switch's default branch.
SearchMethods == { "similarity", "cosine", "l2", "ip", "filtered_similarity" }

\* The query texts: empty, blank, and a question.
Queries == { "", "  ", "q" }

\* `!query || query.trim().length === 0`
QueryIsEmpty(query) == query \in { "", "  " }

\* The retriever options of the controller; "" is an absent strictness or
\* searchMethod, metadataFilter tells whether a filter is given.
RetrieverOptions ==
    [minScore : { Undefined, Some(0), Some(60) },
     strictness : { "" } \cup SearchStrictnesses,
     searchMethod : { "" } \cup SearchMethods,
     metadataFilter : BOOLEAN]

\* A variant of the threshold resolution that looks at strictness first.
minScoreThresholdStrictnessFirst(options) ==
    IF options.strictness # "" THEN Some(StrictnessMinScore(options.strictness))
    ELSE options.minScore

\* The threshold: minScore when defined, else the strictness level's
\* minScore, else none.
minScoreThreshold(options) ==
    IF options.minScore # Undefined THEN options.minScore
    ELSE IF options.strictness # "" THEN Some(StrictnessMinScore(options.strictness))
    ELSE Undefined

\* A variant of the filtered_similarity case that asks for no filter.
RequiresFilterNever(options) == FALSE

\* filtered_similarity without metadataFilter.
RequiresFilter(options) ==
    options.searchMethod = "filtered_similarity" /\ ~options.metadataFilter

\* The loop over the store's results: a result whose score is below the
\* threshold is left out.
RECURSIVE FilterByScore(_, _)
FilterByScore(results, threshold) ==
    IF results = <<>> THEN <<>>
    ELSE LET rest == FilterByScore(Tail(results), threshold)
         IN IF threshold # Undefined /\ Head(results).score < threshold[1]
            THEN rest
            ELSE <<Head(results)>> \o rest

\* What similaritySearchWithScore can return: documents with their scores.
ScoreValues == { 30, 60, 70, 90 }
StoreResults ==
    { [k \in DOMAIN scores |-> [doc |-> k, score |-> scores[k]]] :
        scores \in SeqsUpTo(ScoreValues, MaxResults) }

IdleSearch ==
    [phase |-> "idle", query |-> "", options |-> Undefined, searches |-> 0,
     storeResults |-> <<>>, documents |-> <<>>, error |-> ""]

SearchIdle == search = IdleSearch

\* queryDocuments up to the similarity search: ensureInitialized, then an
\* empty query and a filtered_similarity search without filter are refused.
\* A call keeps nothing of the calls before it, so one call is followed.
StartQuery ==
    /\ search.phase = "idle"
    /\ \E query \in Queries, options \in RetrieverOptions :
        LET begun == [IdleSearch EXCEPT !.query = query, !.options = Some(options)]
        IN IF ~controller.ready
           THEN search' = [begun EXCEPT !.phase = "threw", !.error = NotInitialized]
           ELSE IF QueryIsEmpty(query)
           THEN search' = [begun EXCEPT !.phase = "threw",
                                        !.error = "Query cannot be empty"]
           ELSE IF RequiresFilter(options)
           THEN search' = [begun EXCEPT !.phase = "threw",
                                        !.error = "Failed to query documents"]
           ELSE search' = [begun EXCEPT !.phase = "searching", !.searches = 1]

\* The store answers the similarity search, or fails; the results are
\* filtered by score.
SearchAnswers ==
    /\ search.phase = "searching"
    /\ \E fails \in BOOLEAN, results \in StoreResults :
        IF fails
        THEN /\ results = <<>>
             /\ search' = [search EXCEPT !.phase = "threw",
                                         !.error = "Failed to query documents"]
        ELSE search' = [search EXCEPT
                          !.phase = "returned", !.storeResults = results,
                          !.documents = FilterByScore(results,
                                            minScoreThreshold(search.options[1]))]

\* ------------------------------------------------------------------------
\* chunkText
\* ------------------------------------------------------------------------
\* A text is a sequence of characters. The characters that matter to the
\* chunkers: letters, the blank and the newline (whitespace to trim()), and
\* the full stop (standing for the sentence terminators . ! ?).
Whitespace == { " ", "\n" }
Terminators == { "." }

Min(a, b) == IF a < b THEN a ELSE b

\* String.prototype.trim
RECURSIVE TrimStart(_)
TrimStart(s) ==
    IF s # <<>> /\ Head(s) \in Whitespace THEN TrimStart(Tail(s)) ELSE s
RECURSIVE TrimEnd(_)
TrimEnd(s) ==
    IF s # <<>> /\ s[Len(s)] \in Whitespace
    THEN TrimEnd(SubSeq(s, 1, Len(s) - 1)) ELSE s
Trim(s) == TrimEnd(TrimStart(s))

\* text.substring(start, end), 0-based, end exclusive.
Substring(s, start, end) == SubSeq(s, start + 1, end)

\* text.slice(-n): the last n characters, the whole text when it is shorter.
SliceLast(s, n) == SubSeq(s, Len(s) - Min(n, Len(s)) + 1, Len(s))

\* Whether sep occurs in s at (1-based) position i.
OccursAt(s, sep, i) ==
    /\ i + Len(sep) - 1 <= Len(s)
    /\ SubSeq(s, i, i + Len(sep) - 1) = sep

\* text.split(separator) for a string separator: "" splits into characters.
RECURSIVE Split(_, _)
Split(s, sep) ==
    IF sep = <<>> THEN [k \in DOMAIN s |-> <<s[k]>>]
    ELSE LET hits == { i \in DOMAIN s : OccursAt(s, sep, i) }
         IN IF hits = {} THEN <<s>>
            ELSE LET i == CHOOSE h \in hits : \A g \in hits : h <= g
                 IN <<SubSeq(s, 1, i - 1)>>
                        \o Split(SubSeq(s, i + Len(sep), Len(s)), sep)

\* The number of leading characters of s that are in set S.
RECURSIVE Leading(_, _)
Leading(s, S) ==
    IF s # <<>> /\ Head(s) \in S THEN 1 + Leading(Tail(s), S) ELSE 0

\* `if (chunk.length > 0) chunks.push(chunk)`
PushNonEmpty(chunks, chunk) ==
    IF Len(chunk) > 0 THEN Append(chunks, chunk) ELSE chunks

\* chunkByFixedSize: the advance of the window start,
\* `startIndex += chunkSize - overlap; if (startIndex <= 0) startIndex = chunkSize`.
FixedNext(startIndex, chunkSize, overlap) ==
    LET n == startIndex + chunkSize - overlap
    IN IF n <= 0 THEN chunkSize ELSE n

\* chunkByFixedSize: a variant whose window is one character wider.
FixedChunkWide(text, startIndex, chunkSize) ==
    Trim(Substring(text, startIndex, Min(startIndex + chunkSize + 1, Len(text))))

\* chunkByFixedSize: the chunk of the window at startIndex, trimmed.
FixedChunk(text, startIndex, chunkSize) ==
    Trim(Substring(text, startIndex, Min(startIndex + chunkSize, Len(text))))

\* chunkByFixedSize: the while loop from startIndex on.
RECURSIVE FixedLoop(_, _, _, _, _)
FixedLoop(text, startIndex, chunks, chunkSize, overlap) ==
    IF startIndex < Len(text)
    THEN FixedLoop(text, FixedNext(startIndex, chunkSize, overlap),
                   PushNonEmpty(chunks, FixedChunk(text, startIndex, chunkSize)),
                   chunkSize, overlap)
    ELSE chunks

chunkByFixedSize(text, chunkSize, overlap) ==
    FixedLoop(text, 0, <<>>, chunkSize, overlap)

\* text.match(/[^.!?]+[.!?]+/g): the runs of one or more non-terminators
\* followed by one or more terminators, from left to right.
RECURSIVE MatchSentences(_)
MatchSentences(s) ==
    IF s = <<>> THEN <<>>
    ELSE IF Head(s) \in Terminators THEN MatchSentences(Tail(s))
    ELSE LET body == CHOOSE k \in 1..Len(s) :
                        /\ \A i \in 1..k : s[i] \notin Terminators
                        /\ (k = Len(s) \/ s[k + 1] \in Terminators)
             marks == Leading(SubSeq(s, body + 1, Len(s)), Terminators)
         IN IF marks = 0 THEN <<>>
            ELSE <<SubSeq(s, 1, body + marks)>>
                    \o MatchSentences(SubSeq(s, body + marks + 1, Len(s)))

\* chunkBySentence: the loop over the sentences.
RECURSIVE SentenceLoop(_, _, _, _)
SentenceLoop(sentences, chunks, currentChunk, maxChunkSize) ==
    IF sentences = <<>> THEN PushNonEmpty(chunks, currentChunk)
    ELSE LET trimmedSentence == Trim(Head(sentences))
         IN IF Len(currentChunk) + Len(trimmedSentence) + 1 <= maxChunkSize
            THEN SentenceLoop(Tail(sentences), chunks,
                     currentChunk \o (IF Len(currentChunk) > 0 THEN <<" ">> ELSE <<>>)
                                  \o trimmedSentence,
                     maxChunkSize)
            ELSE SentenceLoop(Tail(sentences), PushNonEmpty(chunks, currentChunk),
                              trimmedSentence, maxChunkSize)

\* `text.match(...) || [text]`
Sentences(text) ==
    IF MatchSentences(text) = <<>> THEN <<text>> ELSE MatchSentences(text)

chunkBySentence(text, maxChunkSize) ==
    SentenceLoop(Sentences(text), <<>>, <<>>, maxChunkSize)

\* text.split(/\n\n+/): split at every run of two or more newlines.
RECURSIVE SplitParagraphs(_)
SplitParagraphs(s) ==
    LET hits == { i \in DOMAIN s : OccursAt(s, <<"\n", "\n">>, i) }
    IN IF hits = {} THEN <<s>>
       ELSE LET i == CHOOSE h \in hits : \A g \in hits : h <= g
                run == Leading(SubSeq(s, i, Len(s)), { "\n" })
            IN <<SubSeq(s, 1, i - 1)>> \o SplitParagraphs(SubSeq(s, i + run, Len(s)))

HasText(p) == Len(Trim(p)) > 0

\* chunkByParagraph: the loop over the paragraphs.
RECURSIVE ParagraphLoop(_, _, _, _)
ParagraphLoop(paragraphs, chunks, currentChunk, maxChunkSize) ==
    IF paragraphs = <<>> THEN PushNonEmpty(chunks, currentChunk)
    ELSE LET trimmedParagraph == Trim(Head(paragraphs))
         IN IF Len(currentChunk) + Len(trimmedParagraph) + 2 <= maxChunkSize
            THEN ParagraphLoop(Tail(paragraphs), chunks,
                     currentChunk
                        \o (IF Len(currentChunk) > 0 THEN <<"\n", "\n">> ELSE <<>>)
                        \o trimmedParagraph,
                     maxChunkSize)
            ELSE IF Len(trimmedParagraph) > maxChunkSize
            THEN ParagraphLoop(Tail(paragraphs),
                     PushNonEmpty(chunks, currentChunk)
                        \o chunkByFixedSize(trimmedParagraph, maxChunkSize, 0),
                     <<>>, maxChunkSize)
            ELSE ParagraphLoop(Tail(paragraphs), PushNonEmpty(chunks, currentChunk),
                               trimmedParagraph, maxChunkSize)

chunkByParagraph(text, maxChunkSize) ==
    ParagraphLoop(SelectSeq(SplitParagraphs(text), HasText), <<>>, <<>>, maxChunkSize)

\* DEFAULT_SEPARATORS
DEFAULT_SEPARATORS == << <<"\n", "\n">>, <<"\n">>, <<".", " ">>, <<" ">>, <<>> >>

\* splitRecursive (separatorIndex is 0-based) and its loop over the parts;
\* each yields the chunks it pushes, in order.
RECURSIVE splitRecursive(_, _, _, _, _)
RECURSIVE PartsLoop(_, _, _, _, _, _)
RECURSIVE Flush(_, _, _, _, _)
Flush(currentChunk, separatorIndex, chunkSize, overlap, separators) ==
    IF Len(currentChunk) > 0
    THEN IF Len(currentChunk) > chunkSize
         THEN splitRecursive(currentChunk, separatorIndex + 1, chunkSize, overlap,
                             separators)
         ELSE <<Trim(currentChunk)>>
    ELSE <<>>
PartsLoop(parts, currentChunk, separatorIndex, chunkSize, overlap, separators) ==
    IF parts = <<>>
    THEN Flush(currentChunk, separatorIndex, chunkSize, overlap, separators)
    ELSE LET separator == separators[separatorIndex + 1]
             part == Head(parts)
             potentialChunk ==
                 currentChunk \o (IF currentChunk # <<>> THEN separator ELSE <<>>) \o part
         IN IF Len(potentialChunk) <= chunkSize
            THEN PartsLoop(Tail(parts), potentialChunk, separatorIndex, chunkSize,
                           overlap, separators)
            ELSE Flush(currentChunk, separatorIndex, chunkSize, overlap, separators)
                    \o PartsLoop(Tail(parts), part, separatorIndex, chunkSize,
                                 overlap, separators)
splitRecursive(text, separatorIndex, chunkSize, overlap, separators) ==
    IF Len(text) <= chunkSize
    THEN IF Len(Trim(text)) > 0 THEN <<Trim(text)>> ELSE <<>>
    ELSE IF separatorIndex >= Len(separators)
    THEN chunkByFixedSize(text, chunkSize, overlap)
    ELSE PartsLoop(Split(text, separators[separatorIndex + 1]), <<>>,
                   separatorIndex, chunkSize, overlap, separators)

\* addOverlapToChunks
addOverlapToChunks(chunks, overlap) ==
    IF Len(chunks) <= 1 THEN chunks
    ELSE [i \in DOMAIN chunks |->
            IF i = 1 THEN chunks[1]
            ELSE Trim(SliceLast(chunks[i - 1], overlap) \o <<" ">> \o chunks[i])]

IsNonEmpty(chunk) == Len(chunk) > 0

\* chunkRecursive
chunkRecursive(text, chunkSize, overlap, separators) ==
    LET chunks == splitRecursive(text, 0, chunkSize, overlap, separators)
    IN IF overlap > 0 /\ Len(chunks) > 1
       THEN addOverlapToChunks(chunks, overlap)
       ELSE SelectSeq(chunks, IsNonEmpty)

ChunkingStrategies == { "fixed", "sentence", "paragraph", "recursive" }

\* chunkText, with the options given
chunkTextWith(text, strategy, chunkSize, chunkOverlap, separators) ==
    IF Len(Trim(text)) = 0 THEN <<>>
    ELSE CASE strategy = "fixed" -> chunkByFixedSize(text, chunkSize, chunkOverlap)
           [] strategy = "sentence" -> chunkBySentence(text, chunkSize)
           [] strategy = "paragraph" -> chunkByParagraph(text, chunkSize)
           [] strategy = "recursive" ->
                  chunkRecursive(text, chunkSize, chunkOverlap, separators)

\* The characters of the input texts, and the texts and options a call is given.
Alphabet == { "a", "b", " ", "\n", "." }
Texts == SeqsUpTo(Alphabet, MaxLen)
ChunkSizes == 1..MaxChunkSize
ChunkOverlaps == 0..(MaxChunkSize + 1)

IdleChunking == [phase |-> "idle"]
ChunkIdle == chunking = IdleChunking

\* The separator lists a call is given: the default, and a list of the
\* caller's without the empty string.
SeparatorLists == { DEFAULT_SEPARATORS, << <<" ">> >> }

\* A call of chunkText that has returned `chunks`; preOverlap are the chunks
\* before addOverlapToChunks (the chunks themselves where no overlap is injected).
Chunked(text, strategy, chunkSize, chunkOverlap, separators, preOverlap, chunks) ==
    [phase |-> "done", text |-> text, strategy |-> strategy,
     chunkSize |-> chunkSize, chunkOverlap |-> chunkOverlap,
     separators |-> separators,
     startIndex |-> 0, steps |-> 0, preOverlap |-> preOverlap, chunks |-> chunks]

\* chunkText is called: an empty or blank text returns [] at once, the fixed
\* strategy enters the loop of chunkByFixedSize (followed step by step below),
\* the other strategies return their chunks. chunkBySentence and
\* chunkByParagraph are not passed chunkOverlap, and only chunkRecursive is
\* passed the separators. With separators of the caller's the recursive
\* strategy can fall back to chunkByFixedSize; it is followed there for
\* chunkOverlap < chunkSize, where that loop ends.
StartChunking ==
    /\ chunking.phase = "idle"
    /\ \E text \in Texts, strategy \in ChunkingStrategies,
          chunkSize \in ChunkSizes, chunkOverlap \in ChunkOverlaps,
          separators \in SeparatorLists :
         /\ strategy \in { "sentence", "paragraph" } => chunkOverlap = 0
         /\ strategy # "recursive" => separators = DEFAULT_SEPARATORS
         /\ separators # DEFAULT_SEPARATORS => chunkOverlap < chunkSize
         /\ chunking' =
              IF Len(Trim(text)) = 0
              THEN Chunked(text, strategy, chunkSize, chunkOverlap, separators, <<>>, <<>>)
              ELSE IF strategy = "fixed"
              THEN [Chunked(text, strategy, chunkSize, chunkOverlap, separators, <<>>, <<>>)
                        EXCEPT !.phase = "fixed"]
              ELSE Chunked(text, strategy, chunkSize, chunkOverlap, separators,
                       IF strategy = "recursive"
                       THEN splitRecursive(text, 0, chunkSize, chunkOverlap, separators)
                       ELSE chunkTextWith(text, strategy, chunkSize, chunkOverlap,
                                          separators),
                       chunkTextWith(text, strategy, chunkSize, chunkOverlap, separators))

\* chunkByFixedSize: one iteration of the while loop. The iterations of one
\* call that are followed are capped at MaxSteps.
FixedStep ==
    /\ chunking.phase = "fixed"
    /\ chunking.startIndex < Len(chunking.text)
    /\ chunking.steps < MaxSteps
    /\ LET pushed == PushNonEmpty(chunking.chunks,
                        FixedChunk(chunking.text, chunking.startIndex, chunking.chunkSize))
       IN chunking' = [chunking EXCEPT
            !.chunks = pushed,
            !.preOverlap = pushed,
            !.startIndex = FixedNext(chunking.startIndex, chunking.chunkSize,
                                     chunking.chunkOverlap),
            !.steps = chunking.steps + 1]

\* chunkByFixedSize: the loop condition fails and the chunks are returned.
FixedReturn ==
    /\ chunking.phase = "fixed"
    /\ chunking.startIndex >= Len(chunking.text)
    /\ chunking' = [chunking EXCEPT !.phase = "done"]

\* ------------------------------------------------------------------------
\* generateDocumentHash (src/unnamed/part_003)
\* ------------------------------------------------------------------------

\* The contents and filenames the hash is taken of; "" is no filename.
HashContents == { "b", "::b", "x", "f::x" }
HashFilenames == { "", "a", "a::", "f" }

HashIdle == hashing = <<>>

\* generateDocumentHash is called; what it feeds to the digest is recorded.
HashDocument ==
    /\ Len(hashing) < 2
    /\ \E content \in HashContents, filename \in HashFilenames :
         hashing' = Append(hashing,
                        [content |-> content, filename |-> filename,
                         digest |-> generateDocumentHash(content, filename)])

\* ------------------------------------------------------------------------
\* createRetrieverTool
\* ------------------------------------------------------------------------
\* The func of the search_knowledge_base tool (embedding.retriever-tool.ts:71-162),
\* followed from await to await: getDocumentCount, the retriever's
\* _getRelevantDocuments (queryDocuments) and the listing of sample documents.
IdleRetrieval == [phase |-> "idle"]
RetrievalIdle == retrieval = IdleRetrieval

\* What queryDocuments can answer: results with content, metadata and score.
QueryResult(content, filename, score) ==
    [content |-> content, metadata |-> [filename |-> filename], score |-> score]
QueryResults ==
    { QueryResult("c1", "f1", 90), QueryResult("c2", "f1", 70),
      QueryResult("c1", "f2", 70), QueryResult("c3", "", 60) }

\* EmbeddingRetriever._getRelevantDocuments: each result becomes a Document
\* with the score moved into its metadata.
ToDocuments(results) ==
    [k \in DOMAIN results |->
        [pageContent |-> results[k].content,
         metadata |-> [filename |-> results[k].metadata.filename,
                       score |-> results[k].score]]]

\* The value of which the tool returns the JSON: {content, metadata} per document.
ToJson(docs) ==
    [k \in DOMAIN docs |->
        [content |-> docs[k].pageContent, metadata |-> docs[k].metadata]]

\* What the tool hands back to its caller.
ToolOutput(kind, json) == [kind |-> kind, json |-> json]
EmptyStoreDiagnostic == ToolOutput("empty_store", <<>>)
NoMatchDiagnostic == ToolOutput("no_match", <<>>)
ErrorDiagnostic == ToolOutput("error", <<>>)

\* A variant in which the failure leaves the tool as an exception.
OnToolErrorRethrow == ToolOutput("threw", <<>>)

\* The catch of the tool: the failure becomes a diagnostic string.
OnToolError == ErrorDiagnostic

RetrievalCall(phase, query, options) ==
    [phase |-> phase, query |-> query, options |-> options, totalDocs |-> 0,
     docs |-> <<>>, searches |-> 0, listings |-> 0, failed |-> "", error |-> "",
     output |-> ToolOutput("", <<>>)]

\* The retriever options of the tool's controller: no threshold, the
\* default search or filtered_similarity, with or without a filter.
ToolRetrieverOptions ==
    { o \in RetrieverOptions : /\ o.minScore = Undefined /\ o.strictness = ""
                               /\ o.searchMethod \in { "", "filtered_similarity" } }

\* What queryDocuments throws before it searches, "" when it goes on to the
\* search: ensureInitialized, the test for an empty query, and, inside the
\* try, filtered_similarity without metadataFilter.
QueryRefusal(initialized, query, options) ==
    IF ~initialized THEN NotInitialized
    ELSE IF QueryIsEmpty(query) THEN "Query cannot be empty"
    ELSE IF RequiresFilter(options) THEN "Failed to query documents"
    ELSE ""

\* The tool is called with a query.
CallRetrieverTool ==
    /\ retrieval.phase = "idle"
    /\ \E query \in Queries, options \in ToolRetrieverOptions :
         retrieval' = RetrievalCall("count", query, options)

\* controller.getDocumentCount() answers: it throws when the controller is not
\* initialized, it answers 0 when the store fails (its own catch) or is empty,
\* and the number of documents otherwise.
CountAnswers ==
    /\ retrieval.phase = "count"
    /\ \E initialized \in BOOLEAN, storeFails \in BOOLEAN, count \in 0..MaxResults :
         LET totalDocs == IF storeFails THEN 0 ELSE count IN
         /\ (~initialized \/ storeFails) => count = 0
         /\ ~initialized => ~storeFails
         /\ IF ~initialized
            THEN retrieval' = [retrieval EXCEPT !.phase = "done", !.failed = "count",
                                                !.error = NotInitialized,
                                                !.output = OnToolError]
            ELSE IF totalDocs = 0
            THEN retrieval' = [retrieval EXCEPT
                     !.phase = "done",
                     !.failed = IF storeFails THEN "count" ELSE "",
                     !.output = EmptyStoreDiagnostic]
            ELSE retrieval' = [retrieval EXCEPT !.phase = "search",
                                                !.totalDocs = totalDocs]

\* retriever._getRelevantDocuments(query) answers: queryDocuments throws
\* before any search when the controller is not initialized any more, for an
\* empty query and for filtered_similarity without a filter; it throws when
\* the store fails; else it returns results, none or some.
RetrieverAnswers ==
    /\ retrieval.phase = "search"
    /\ \E initialized \in BOOLEAN, storeFails \in BOOLEAN,
          results \in SeqsUpTo(QueryResults, Min(retrieval.totalDocs, MaxResults)) :
         LET refusal == QueryRefusal(initialized, retrieval.query, retrieval.options)
         IN /\ refusal # "" => ~storeFails
            /\ (refusal # "" \/ storeFails) => results = <<>>
            /\ IF refusal # "" \/ storeFails
               THEN retrieval' = [retrieval EXCEPT
                        !.phase = "done", !.failed = "search",
                        !.searches = IF refusal # "" THEN 0 ELSE 1,
                        !.error = IF refusal # "" THEN refusal
                                  ELSE "Failed to query documents",
                        !.output = OnToolError]
               ELSE IF results = <<>>
               THEN retrieval' = [retrieval EXCEPT !.phase = "list", !.searches = 1]
               ELSE retrieval' = [retrieval EXCEPT
                        !.phase = "done", !.searches = 1,
                        !.docs = ToDocuments(results),
                        !.output = ToolOutput("json", ToJson(ToDocuments(results)))]

\* No document was found: the sample documents are listed for the
\* diagnostic; the listing reads the store and can fail (the store fails, it
\* holds no id any more, or the controller was closed meanwhile).
ListAnswers ==
    /\ retrieval.phase = "list"
    /\ \E listFails \in BOOLEAN :
         retrieval' = [retrieval EXCEPT
             !.phase = "done", !.listings = 1,
             !.failed = IF listFails THEN "list" ELSE "",
             !.output = IF listFails THEN OnToolError ELSE NoMatchDiagnostic]

\* ------------------------------------------------------------------------
\* invokeGraph
\* ------------------------------------------------------------------------
\* MonitoringAiBaseGraph.invokeGraph with the usage accumulators of its
\* TokensController and EmbeddingController. A run is one call of invokeGraph;
\* it is suspended at `await this.graph.invoke(...)`, where the nodes of the
\* graph record usage and where other runs may start, record and finish.
\* invokeGraph calls getUsageEntries and clearUsageEntries on the
\* EmbeddingController; the class as given (part_003:235-776) has neither,
\* while the change log (part_009:55-58) lists them as delegation methods of
\* its usage tracking. Both builds are modelled: `delegates` says whether the
\* EmbeddingController has the methods.
IdleGraph == [phase |-> "idle"]
GraphIdle == graph = IdleGraph

Runs == 1..MaxRuns
\* The accumulators of the two controllers of a graph instance, empty.
NoUsage == [tokens |-> <<>>, embedding |-> <<>>]

\* A variant in which every run uses the controllers of instance 1.
ControllersOfFirst(instanceOf, r) == 1

\* The graph instance whose controllers run r uses: each instance builds a
\* TokensController and an EmbeddingController of its own (constructor,
\* part_003:53-54), and a run is a call on one instance.
ControllersOf(instanceOf, r) == instanceOf[r]

\* Which instance the runs are calls on: all on one instance, each on an
\* instance of its own, or the first on its own and the others on one.
InstanceAssignments ==
    { [r \in Runs |-> 1], [r \in Runs |-> r], [r \in Runs |-> IF r = 1 THEN 1 ELSE 2] }

IdleRun == [phase |-> "idle", recorded |-> <<>>, usagePerNode |-> <<>>,
            leftBehind |-> <<>>]

GraphInit(instanceOf, delegates) ==
    [phase |-> "ready", instanceOf |-> instanceOf,
     shared |-> \A r \in Runs : instanceOf[r] = 1, delegates |-> delegates,
     usageEntries |-> [c \in Runs |-> NoUsage],
     runs |-> [r \in Runs |-> IdleRun],
     overlapped |-> FALSE, entries |-> 0]

\* TokensController.getUsageEntries: a copy of the entries.
TokensUsageEntries(g, c) == g.usageEntries[c].tokens
\* EmbeddingController.getUsageEntries, where the class has it.
EmbeddingUsageEntries(g, c) == g.usageEntries[c].embedding
\* getUsageEntries of both controllers, tokens first (part_003:78-79, 86-90).
CollectedEntries(g, c) == TokensUsageEntries(g, c) \o EmbeddingUsageEntries(g, c)

Running(g) ==
    { r \in Runs : g.runs[r].phase = "running" }

\* invokeGraph is called and reaches `await this.graph.invoke(...)`, unless
\* convertToLangChainMessages throws at a message of no supported type: the
\* catch rethrows and the controllers are not touched.
StartRun ==
    /\ graph.phase = "ready"
    /\ \E r \in Runs, supported \in BOOLEAN :
         LET c == ControllersOf(graph.instanceOf, r) IN
         /\ graph.runs[r].phase = "idle"
         /\ \A q \in Runs : q < r => graph.runs[q].phase # "idle"
         /\ IF supported
            THEN graph' = [graph EXCEPT
                   !.runs[r].phase = "running",
                   !.overlapped = graph.overlapped \/ Running(graph) # {}]
            ELSE graph' = [graph EXCEPT
                   !.runs[r].phase = "failed",
                   !.runs[r].leftBehind = CollectedEntries(graph, c)]

\* A node of the running graph records usage: TokensController.recordUsage
\* pushes a new entry (with a fresh id) on the accumulator.
RecordUsage ==
    /\ graph.phase = "ready"
    /\ graph.entries < MaxEntries
    /\ \E r \in Runs :
         LET c == ControllersOf(graph.instanceOf, r)
             entry == <<r, Len(graph.runs[r].recorded) + 1>>
         IN /\ graph.runs[r].phase = "running"
            /\ graph' = [graph EXCEPT
                 !.usageEntries[c].tokens = Append(@, entry),
                 !.runs[r].recorded = Append(@, entry),
                 !.entries = @ + 1]

\* An embedding operation of the running graph records usage on the
\* EmbeddingController's accumulator, where the class tracks usage.
RecordEmbeddingUsage ==
    /\ graph.phase = "ready"
    /\ graph.delegates
    /\ graph.entries < MaxEntries
    /\ \E r \in Runs :
         LET c == ControllersOf(graph.instanceOf, r)
             entry == <<r, Len(graph.runs[r].recorded) + 1>>
         IN /\ graph.runs[r].phase = "running"
            /\ graph' = [graph EXCEPT
                 !.usageEntries[c].embedding = Append(@, entry),
                 !.runs[r].recorded = Append(@, entry),
                 !.entries = @ + 1]

\* graph.invoke resolves: the entries of both controllers are read, merged
\* behind the usagePerNode of the graph's result, the controllers are cleared
\* and the result is returned, its messages converted back: when
\* convertFromLangChainMessages throws at a message of no known class, the
\* catch rethrows, the controllers being cleared already. Nothing is awaited
\* in between. Where the EmbeddingController has no getUsageEntries, the call
\* at part_003:79 is a TypeError: the catch rethrows it and nothing is cleared.
GraphReturns ==
    /\ graph.phase = "ready"
    /\ \E r \in Runs : \E resultUsagePerNode \in { <<>>, << <<r, 0>> >> }, known \in BOOLEAN :
         LET c == ControllersOf(graph.instanceOf, r) IN
         /\ graph.runs[r].phase = "running"
         /\ IF graph.delegates /\ known
            THEN graph' = [graph EXCEPT
                   !.runs[r].phase = "returned",
                   !.runs[r].usagePerNode = resultUsagePerNode \o CollectedEntries(graph, c),
                   !.runs[r].leftBehind = <<>>,
                   !.usageEntries[c] = NoUsage]
            ELSE IF graph.delegates
            THEN /\ resultUsagePerNode = <<>>
                 /\ graph' = [graph EXCEPT
                       !.runs[r].phase = "failed",
                       !.runs[r].leftBehind = <<>>,
                       !.usageEntries[c] = NoUsage]
            ELSE /\ resultUsagePerNode = <<>> /\ known
                 /\ graph' = [graph EXCEPT
                       !.runs[r].phase = "failed",
                       !.runs[r].leftBehind = TokensUsageEntries(graph, c)]

\* graph.invoke rejects: the catch wraps and rethrows the error; the
\* controllers are neither read nor cleared.
GraphThrows ==
    /\ graph.phase = "ready"
    /\ \E r \in Runs :
         LET c == ControllersOf(graph.instanceOf, r) IN
         /\ graph.runs[r].phase = "running"
         /\ graph' = [graph EXCEPT
              !.runs[r].phase = "failed",
              !.runs[r].leftBehind = CollectedEntries(graph, c)]

\* ------------------------------------------------------------------------
\* The specifications
\* ------------------------------------------------------------------------
InitQuery == AgentIdle /\ IngestIdle /\ SearchIdle /\ ChunkIdle /\ HashIdle /\ RetrievalIdle /\ GraphIdle
NextQuery ==
    \/ Initialize /\ UNCHANGED <<agentVars, search, chunking, hashing, retrieval, graph>>
    \/ Close /\ UNCHANGED <<agentVars, search, chunking, hashing, retrieval, graph>>
    \/ StartQuery /\ UNCHANGED <<agentVars, ingestVars, chunking, hashing, retrieval, graph>>
    \/ SearchAnswers /\ UNCHANGED <<agentVars, ingestVars, chunking, hashing, retrieval, graph>>
SpecQuery == InitQuery /\ [][NextQuery]_vars

InitChunk == AgentIdle /\ IngestIdle /\ SearchIdle /\ ChunkIdle /\ HashIdle /\ RetrievalIdle /\ GraphIdle
NextChunk ==
    \/ StartChunking /\ UNCHANGED <<agentVars, ingestVars, search, hashing, retrieval, graph>>
    \/ FixedStep /\ UNCHANGED <<agentVars, ingestVars, search, hashing, retrieval, graph>>
    \/ FixedReturn /\ UNCHANGED <<agentVars, ingestVars, search, hashing, retrieval, graph>>
SpecChunk == InitChunk /\ [][NextChunk]_vars

InitHash == AgentIdle /\ IngestIdle /\ SearchIdle /\ ChunkIdle /\ HashIdle /\ RetrievalIdle /\ GraphIdle
NextHash ==
    \/ HashDocument /\ UNCHANGED <<agentVars, ingestVars, search, chunking, retrieval, graph>>
SpecHash == InitHash /\ [][NextHash]_vars

InitGraph ==
    /\ AgentIdle /\ IngestIdle /\ SearchIdle /\ ChunkIdle /\ HashIdle /\ RetrievalIdle
    /\ graph \in { GraphInit(instanceOf, delegates) :
                      instanceOf \in InstanceAssignments, delegates \in BOOLEAN }
NextGraph ==
    \/ StartRun /\ UNCHANGED <<agentVars, ingestVars, search, chunking, hashing, retrieval>>
    \/ RecordUsage /\ UNCHANGED <<agentVars, ingestVars, search, chunking, hashing, retrieval>>
    \/ RecordEmbeddingUsage
          /\ UNCHANGED <<agentVars, ingestVars, search, chunking, hashing, retrieval>>
    \/ GraphReturns /\ UNCHANGED <<agentVars, ingestVars, search, chunking, hashing, retrieval>>
    \/ GraphThrows /\ UNCHANGED <<agentVars, ingestVars, search, chunking, hashing, retrieval>>
SpecGraph == InitGraph /\ [][NextGraph]_vars

InitRetrieval ==
    AgentIdle /\ IngestIdle /\ SearchIdle /\ ChunkIdle /\ HashIdle /\ RetrievalIdle /\ GraphIdle
NextRetrieval ==
    \/ CallRetrieverTool /\ UNCHANGED <<agentVars, ingestVars, search, chunking, hashing, graph>>
    \/ CountAnswers /\ UNCHANGED <<agentVars, ingestVars, search, chunking, hashing, graph>>
    \/ RetrieverAnswers /\ UNCHANGED <<agentVars, ingestVars, search, chunking, hashing, graph>>
    \/ ListAnswers /\ UNCHANGED <<agentVars, ingestVars, search, chunking, hashing, graph>>
SpecRetrieval == InitRetrieval /\ [][NextRetrieval]_vars

InitIngest == AgentIdle /\ IngestIdle /\ SearchIdle /\ ChunkIdle /\ HashIdle /\ RetrievalIdle /\ GraphIdle
NextIngest ==
    \/ Initialize /\ UNCHANGED <<agentVars, search, chunking, hashing, retrieval, graph>>
    \/ Close /\ UNCHANGED <<agentVars, search, chunking, hashing, retrieval, graph>>
    \/ (\E s \in Callers : BeginCall(s))
          /\ UNCHANGED <<agentVars, search, chunking, hashing, retrieval, graph>>
    \/ (\E s \in Callers : SourceAnswers(s))
          /\ UNCHANGED <<agentVars, search, chunking, hashing, retrieval, graph>>
    \/ (\E s \in Callers : ContentAnswers(s))
          /\ UNCHANGED <<agentVars, search, chunking, hashing, retrieval, graph>>
    \/ (\E s \in Callers : DuplicateCheckAnswers(s))
          /\ UNCHANGED <<agentVars, search, chunking, hashing, retrieval, graph>>
    \/ (\E s \in Callers : ParseAnswers(s))
          /\ UNCHANGED <<agentVars, search, chunking, hashing, retrieval, graph>>
    \/ (\E s \in Callers : ReplaceDeleteAnswers(s))
          /\ UNCHANGED <<agentVars, search, chunking, hashing, retrieval, graph>>
    \/ (\E s \in Callers : BatchAddAnswers(s))
          /\ UNCHANGED <<agentVars, search, chunking, hashing, retrieval, graph>>
    \/ AddDocuments
          /\ UNCHANGED <<agentVars, search, chunking, hashing, retrieval, graph>>
    \/ AddDocumentsAnswers
          /\ UNCHANGED <<agentVars, search, chunking, hashing, retrieval, graph>>
    \/ DeleteDocuments
          /\ UNCHANGED <<agentVars, search, chunking, hashing, retrieval, graph>>
    \/ DeleteDocumentsAnswers
          /\ UNCHANGED <<agentVars, search, chunking, hashing, retrieval, graph>>
    \/ DeleteCollection
          /\ UNCHANGED <<agentVars, search, chunking, hashing, retrieval, graph>>
    \/ DeleteCollectionGet
          /\ UNCHANGED <<agentVars, search, chunking, hashing, retrieval, graph>>
    \/ DeleteCollectionDelete
          /\ UNCHANGED <<agentVars, search, chunking, hashing, retrieval, graph>>
    \/ DeleteCollectionReset
          /\ UNCHANGED <<agentVars, search, chunking, hashing, retrieval, graph>>
SpecIngest == InitIngest /\ [][NextIngest]_vars

Init == AgentInit /\ IngestIdle /\ SearchIdle /\ ChunkIdle /\ HashIdle /\ RetrievalIdle /\ GraphIdle
Next ==
    \/ BuildTools /\ UNCHANGED <<ingestVars, search, chunking, hashing, retrieval, graph>>
    \/ InvokeDirectStructured /\ UNCHANGED <<ingestVars, search, chunking, hashing, retrieval, graph>>
    \/ InvokeDirectPlain /\ UNCHANGED <<ingestVars, search, chunking, hashing, retrieval, graph>>
    \/ ModelCall /\ UNCHANGED <<ingestVars, search, chunking, hashing, retrieval, graph>>
    \/ ExecuteToolCall /\ UNCHANGED <<ingestVars, search, chunking, hashing, retrieval, graph>>
    \/ MaxIterationsReached /\ UNCHANGED <<ingestVars, search, chunking, hashing, retrieval, graph>>
Spec == Init /\ [][Next]_vars

\* ------------------------------------------------------------------------
\* invokeAgent: properties
\* ------------------------------------------------------------------------
AiMessages == { i \in DOMAIN allMessages : allMessages[i].role = "ai" }
IsToolBound(v) == v.kind = "tools"
ToolBound == SelectSeq(invocations, IsToolBound)
EveryResponseCarriesCalls ==
    \A i \in AiMessages : allMessages[i].tool_calls # <<>>
RetrievalOccurred ==
    \E m \in ToolMessages : allMessages[m].name = RETRIEVER_TOOL_NAME
IsFailure(message) == message.content \in {"error", "not_found"}

\* C1: with tools and a model whose every response carries a tool call, the
\* run makes exactly the tool-bound invocations of iterations 1..5, never
\* more, and then returns a result, whatever the tools returned or threw.
C1_AlwaysToolCallsRunsFiveIterations ==
    /\ Len(ToolBound) <= 5
    /\ (pc = "done" /\ Len(params.tools) > 0 /\ EveryResponseCarriesCalls) =>
          /\ [k \in DOMAIN ToolBound |-> ToolBound[k].iteration] = [k \in 1..5 |-> k]
          /\ result.returned

\* A run of five responses with tool calls, one of which threw and one of
\* which returned documents, has returned.
C1_Witness ==
    /\ pc = "done" /\ Len(params.tools) > 0 /\ EveryResponseCarriesCalls
    /\ \E m \in ToolMessages : allMessages[m].content = "error"
    /\ \E m \in ToolMessages : allMessages[m].content = "documents"

\* C2: a response without tool calls is the last message of the history and
\* ends the run: the iterations made are as many as the responses so far,
\* no tool ran in that iteration and no tool-bound invocation follows.
C2_StopsAtFirstResponseWithoutToolCalls ==
    \A i \in AiMessages :
        allMessages[i].tool_calls = <<>> =>
            /\ i = Len(allMessages)
            /\ pc = "done" /\ result.returned
            /\ iteration = Cardinality(AiMessages)
            /\ Len(ToolBound) = iteration
            /\ \A m \in ToolMessages : allMessages[m].tool_call_id[2] < iteration

\* The third response is the first without tool calls and the run is over.
C2_Witness ==
    /\ pc = "done" /\ iteration = 3
    /\ Last(allMessages).role = "ai" /\ Last(allMessages).tool_calls = <<>>
    /\ Cardinality(ToolMessages) >= 2

\* C3: when invokeAgent has returned and every model response carried an
\* id, every citation of the returned list has usedByMessageId set.
C3_EveryReturnedCitationLinked ==
    (pc = "done" /\ result.citations # Undefined
        /\ \A i \in AiMessages : allMessages[i].id # NoId) =>
        \A k \in DOMAIN result.citations[1] :
            result.citations[1][k].usedByMessageId # NoId

\* C4: a citation created in iteration i is linked to the model response of
\* iteration i+1 as soon as that response is in the history, whether or not
\* the response carries tool calls.
C4_LinkedToNextAssistantMessage ==
    \A k \in DOMAIN citations :
        \A j \in AiMessages :
            allMessages[j].id = <<"ai", citations[k].usedInIteration + 1, 0>> =>
                citations[k].usedByMessageId = allMessages[j].id

\* C5: no two citations of a run share content and metadata.filename, and
\* every (content, filename) pair a retrieval result listed, however often
\* and in however many tool calls, has exactly one citation.
C5_CitationsDeduplicated ==
    /\ \A i, j \in DOMAIN citations :
          i # j => ~(/\ citations[i].content = citations[j].content
                     /\ citations[i].filename = citations[j].filename)
    /\ \A m \in ToolMessages :
          allMessages[m].name = RETRIEVER_TOOL_NAME =>
            \A d \in Range(allMessages[m].docs) :
                Cardinality({ k \in DOMAIN citations :
                                /\ citations[k].content = d.content
                                /\ citations[k].filename = d.filename }) = 1

\* Two tool calls of different iterations returned the same document.
C5_Witness ==
    \E m1, m2 \in ToolMessages :
        /\ allMessages[m1].tool_call_id[2] # allMessages[m2].tool_call_id[2]
        /\ Range(allMessages[m1].docs) \cap Range(allMessages[m2].docs) # {}
        /\ Len(citations) >= 2

\* The number of tool calls of the response at index i that have been executed.
Executed(i) ==
    IF pc = "tools" /\ \A j \in AiMessages : j <= i
    THEN Len(allMessages[i].tool_calls) - Len(pendingCalls)
    ELSE Len(allMessages[i].tool_calls)

\* C6: every tool call of a response gets its tool-result message, in call
\* order and with its tool_call_id, also after a call that named an unknown
\* tool (answered by a not-found error message) or whose tool threw
\* (answered by an execution-error message); the calls still to run are the
\* rest of the response's calls, and after the last one the run is at the
\* loop condition or, at the cap, has returned.
C6_FailedToolCallDoesNotAbort ==
    \A i \in AiMessages :
        LET calls == allMessages[i].tool_calls
        IN /\ i + Executed(i) <= Len(allMessages)
           /\ \A k \in 1..Executed(i) :
                LET m == allMessages[i + k]
                IN /\ m.role = "tool"
                   /\ m.tool_call_id = calls[k].id
                   /\ (calls[k].name \notin Range(params.tools)) <=> (m.content = "not_found")
                   /\ IsFailure(m) <=> (m.name = "")
           /\ (pc = "tools" /\ \A j \in AiMessages : j <= i) =>
                /\ pendingCalls # <<>>
                /\ pendingCalls = SubSeq(calls, Executed(i) + 1, Len(calls))
           /\ (pc # "tools" /\ Last(allMessages).role = "tool") =>
                \/ pc = "loop"
                \/ pc = "done" /\ iteration = 5

\* A response of two calls whose first call failed: the second was executed
\* and the next model response followed.
C6_Witness ==
    \E i \in AiMessages :
        /\ Len(allMessages[i].tool_calls) = 2
        /\ i + 3 <= Len(allMessages)
        /\ IsFailure(allMessages[i + 1])
        /\ allMessages[i + 2].role = "tool" /\ ~IsFailure(allMessages[i + 2])
        /\ allMessages[i + 3].role = "ai"

\* C7 as stated: the returned citations field is omitted exactly when no
\* retrieval occurred during the run.
C7_CitationsOmittedIffNoRetrieval ==
    pc = "done" => ((result.citations = Undefined) <=> ~RetrievalOccurred)

\* C7, amended: the returned citations field is omitted exactly when the run
\* extracted no citation, and is never an empty list; a run without
\* retrieval omits it, and so does a run whose retrievals listed no document.
C7_CitationsOmittedIffNoCitation ==
    pc = "done" =>
        /\ result.citations # Some(<<>>)
        /\ (result.citations = Undefined) <=> (citations = <<>>)
        /\ result.citations # Undefined => result.citations = Some(citations)
        /\ ~RetrievalOccurred => result.citations = Undefined

\* A run whose retrieval matched nothing returns no citations field.
C7_Witness ==
    pc = "done" /\ RetrievalOccurred /\ result.citations = Undefined

\* C8: with nodeName set and a model that reports usage, the returned
\* usagePerNode has one entry per model invocation of the run, and the entry
\* of loop iteration i carries iteration = i.
C8_OneUsageEntryPerInvocation ==
    (pc = "done" /\ params.nodeName /\ params.reportsUsage) =>
        LET entries == IF result.usagePerNode = Undefined THEN <<>>
                       ELSE result.usagePerNode[1]
        IN /\ Len(entries) = Len(invocations)
           /\ \A k \in DOMAIN entries :
                invocations[k].kind = "tools" =>
                    entries[k].iteration = Some(invocations[k].iteration)

\* ------------------------------------------------------------------------
\* addDocumentsFromFiles: properties
\* ------------------------------------------------------------------------
\* The file of a log entry matches chunks already in the store: when its
\* duplicate query was answered, or failed, the store held chunks of its
\* documentHash.
IsDuplicate(e) == e.queried /\ e.stored # {}
\* The documents the call of caller s built for the file at (0-based) fileIndex.
DocumentsOfFile(s, fileIndex) ==
    { k \in DOMAIN call[s].allDocuments : call[s].allDocuments[k].fileIndex = fileIndex }
Skips(s) ==
    { i \in DOMAIN call[s].log : call[s].log[i].decision \in { "duplicate", "no_text" } }
NoStoreOp(s, op) == \A k \in DOMAIN storeOps[s] : storeOps[s][k].op # op
\* No other party has changed the store since the call of caller s began.
Undisturbed(s) == ~call[s].foreign

\* C9: under skip, a file whose documentHash matches chunks already in the
\* store contributes no chunk and counts one skip, and the call deletes
\* nothing; a call all of whose files are such duplicates returns added = 0,
\* skipped = the number of files, writes nothing, and leaves the store as
\* it was.
C9_SkipLeavesDuplicatesAlone ==
    \A s \in Callers :
      call[s].duplicateHandling = "skip" =>
        /\ NoStoreOp(s, "delete")
        /\ call[s].documentsToReplace = {}
        /\ call[s].skippedCount = Cardinality(Skips(s))
        /\ \A i \in DOMAIN call[s].log :
              IsDuplicate(call[s].log[i]) =>
                /\ call[s].log[i].decision = "duplicate"
                /\ DocumentsOfFile(s, i - 1) = {}
        /\ (/\ call[s].phase = "returned"
            /\ \A i \in DOMAIN call[s].log : IsDuplicate(call[s].log[i])) =>
                /\ outcome[s].added = 0
                /\ outcome[s].skipped = Len(call[s].files)
                /\ NoStoreOp(s, "add")
                /\ Undisturbed(s) => store = call[s].storeAtStart

\* C10: under replace, a call that ingests one file whose documentHash
\* matches stored chunks, and none of whose store operations failed, returns
\* replaced = 1; afterwards no chunk id stored for that hash before the call
\* is in the store and every chunk produced for the file is.
C10_ReplaceRemovesOldChunks ==
    \A s \in Callers :
      (/\ call[s].phase = "returned" /\ call[s].duplicateHandling = "replace"
       /\ Len(call[s].files) = 1
       /\ Undisturbed(s)
       /\ \A k \in DOMAIN storeOps[s] : ~storeOps[s][k].failed
       /\ \E c \in call[s].storeAtStart : c.documentHash = call[s].log[1].documentHash) =>
          /\ outcome[s].replaced = 1
          /\ \A c \in call[s].storeAtStart :
                c.documentHash = call[s].log[1].documentHash =>
                    c.id \notin { d.id : d \in store }
          /\ \A k \in DOMAIN call[s].allDocuments : call[s].allDocuments[k] \in store

\* The store writes the call of caller s has made with success.
IsDone(o) == o.op \in { "delete", "add" } /\ ~o.failed
OwnWrites(s) == SelectSeq(storeOps[s], IsDone)

\* C11: under error, once a file of the call matches chunks already in the
\* store, the call has thrown at that file with the duplicate error, and the
\* store is as it was when the call began: nothing was upserted, not even
\* for the files before it, and nothing deleted.
C11_ErrorPolicyFailsWholeCall ==
    \A s \in Callers :
      call[s].duplicateHandling = "error" =>
        /\ NoStoreOp(s, "delete")
        /\ (InFlight(s) \/ call[s].phase = "threw") =>
              /\ OwnWrites(s) = <<>>
              /\ Undisturbed(s) => store = call[s].storeAtStart
        /\ \A i \in DOMAIN call[s].log :
              IsDuplicate(call[s].log[i]) =>
                /\ i = Len(call[s].log)
                /\ call[s].log[i].decision = "throw"
                /\ call[s].phase = "threw"
                /\ outcome[s] = Threw(FromFiles("Duplicate document found"))
                /\ NoStoreOp(s, "add")
                /\ Undisturbed(s) => store = call[s].storeAtStart

StoredIds(st) == { c.id : c \in st }

\* C12: under allow the call never queries the store for a hash, never
\* skips a file as a duplicate, never replaces or deletes; a file is skipped
\* only for having no text. When the store has answered the upsert of the
\* call (no other party having written meanwhile, nothing having failed of
\* itself, and none of the call's chunk ids being in the store before, as
\* when its timestamp is a new one), the call has returned and the store
\* holds every chunk it held before, and next to them every chunk of the
\* call: the same content ingested twice is stored as two chunk sets of one
\* documentHash.
C12_AllowNeverChecks ==
    \A s \in Callers :
      call[s].duplicateHandling = "allow" =>
        /\ NoStoreOp(s, "get") /\ NoStoreOp(s, "delete")
        /\ call[s].replacedCount = 0 /\ call[s].documentsToReplace = {}
        /\ \A i \in DOMAIN call[s].log :
              /\ ~call[s].log[i].queried
              /\ call[s].log[i].decision \notin { "duplicate", "throw" }
              /\ (call[s].log[i].decision = "no_text")
                    => HasNoText(call[s].files[i].content)
        /\ (/\ ~NoStoreOp(s, "add") /\ Undisturbed(s) /\ used.faults = 0
            /\ Ids(call[s].allDocuments) \cap StoredIds(call[s].storeAtStart) = {}) =>
              /\ call[s].phase = "returned"
              /\ call[s].storeAtStart \subseteq store
              /\ \A k \in DOMAIN call[s].allDocuments : call[s].allDocuments[k] \in store
              /\ Cardinality(store) =
                    Cardinality(call[s].storeAtStart) + Len(call[s].allDocuments)

\* C13: a call that has returned without having produced a chunk (every
\* file skipped as a duplicate or for having no text) returned
\* {added: 0, skipped, replaced} with its counters and made no upsert; an
\* upsert is only ever made with at least one document.
C13_NoChunkNoUpsert ==
    \A s \in Callers :
      /\ (call[s].phase = "returned" /\ Len(call[s].allDocuments) = 0) =>
            /\ outcome[s] = Returned(0, call[s].skippedCount, call[s].replacedCount)
            /\ call[s].skippedCount = Len(call[s].files)
            /\ NoStoreOp(s, "add")
      /\ (call[s].phase = "add" \/ ~NoStoreOp(s, "add")) => Len(call[s].allDocuments) > 0

\* A call of two files, one a duplicate skipped and one without text, has
\* returned added = 0 and skipped = 2.
C13_Witness ==
    /\ call["a"].phase = "returned" /\ Len(call["a"].files) = 2
    /\ \E i, j \in DOMAIN call["a"].log :
          call["a"].log[i].decision = "duplicate" /\ call["a"].log[j].decision = "no_text"
    /\ outcome["a"] = Returned(0, 2, 0)
    /\ NoStoreOp("a", "add")

\* C14: the chunk ids a call has produced are pairwise distinct.
C14_ChunkIdsDistinctWithinCall ==
    \A s \in Callers :
      \A i, j \in DOMAIN call[s].allDocuments :
        i # j => call[s].allDocuments[i].id # call[s].allDocuments[j].id

\* C15: when the store query for the chunks of a file's
\* documentHash fails, the call fails at that file instead of treating the
\* file as new.
C15_QueryFailureFailsCall ==
    \A s \in Callers :
      \A i \in DOMAIN call[s].log :
        call[s].log[i].queryFailed =>
            /\ call[s].phase = "threw"
            /\ i = Len(call[s].log)
            /\ call[s].log[i].decision \notin { "chunked", "no_text" }

\* ------------------------------------------------------------------------
\* queryDocuments: properties
\* ------------------------------------------------------------------------
\* The threshold as the claim words it: minScore if given, else the table
\* value of the strictness level, else none.
ClaimedThreshold(options) ==
    IF options.minScore # Undefined THEN options.minScore
    ELSE CASE options.strictness = "all_results" -> Some(0)
           [] options.strictness = "relaxed" -> Some(50)
           [] options.strictness = "balanced" -> Some(70)
           [] options.strictness = "strict" -> Some(85)
           [] OTHER -> Undefined
\* The positions of the store's results that are not below the threshold.
Kept(results, threshold) ==
    { k \in DOMAIN results : threshold = Undefined \/ results[k].score >= threshold[1] }
IsSubsequenceInOrder(sub, full) ==
    \A i, j \in DOMAIN sub : i < j => sub[i].doc < sub[j].doc

\* C16: a query that has returned returned exactly the store's results
\* whose score is not below the threshold, in the store's order, the
\* threshold being minScore if given, else the strictness level's table
\* value, else none (then all results are returned).
C16_ResultsFilteredByResolvedThreshold ==
    search.phase = "returned" =>
        LET threshold == ClaimedThreshold(search.options[1])
            kept == Kept(search.storeResults, threshold)
        IN /\ { search.documents[i] : i \in DOMAIN search.documents }
                = { search.storeResults[k] : k \in kept }
           /\ Len(search.documents) = Cardinality(kept)
           /\ IsSubsequenceInOrder(search.documents, search.storeResults)
           /\ threshold = Undefined => search.documents = search.storeResults

\* Scores 0.9, 0.6, 0.3 under balanced, with no minScore: only the 0.9
\* result is returned.
C16_Witness ==
    /\ search.phase = "returned"
    /\ search.options[1].minScore = Undefined
    /\ search.options[1].strictness = "balanced"
    /\ [k \in DOMAIN search.storeResults |-> search.storeResults[k].score] = <<90, 60, 30>>
    /\ search.documents = <<[doc |-> 1, score |-> 90]>>

\* C17: a query call with an empty or blank query, or with
\* filtered_similarity and no metadataFilter, has thrown and made no
\* similarity search; every other call made one, unless the controller was
\* not initialized, which is refused first.
C17_InvalidQueryRejectedBeforeSearch ==
    search.phase # "idle" =>
        LET invalid == \/ search.query \in { "", "  " }
                       \/ /\ search.options[1].searchMethod = "filtered_similarity"
                          /\ ~search.options[1].metadataFilter
        IN /\ invalid => /\ search.phase = "threw"
                         /\ search.error # ""
                         /\ search.searches = 0
                         /\ search.documents = <<>>
           /\ ~invalid => (search.searches = 1 \/ search.error = NotInitialized)
           /\ search.error = NotInitialized => search.searches = 0

\* A filtered_similarity query with a question and no filter has thrown.
C17_Witness ==
    /\ search.phase = "threw" /\ search.query = "q"
    /\ search.error = "Failed to query documents"
    /\ search.options[1].searchMethod = "filtered_similarity"
    /\ ~search.options[1].metadataFilter
    /\ search.searches = 0

\* ---------------------------------------------------------------------
\* chunkText
\* ---------------------------------------------------------------------

\* The concatenation of the chunks, in order.
RECURSIVE Concatenated(_)
Concatenated(chunks) ==
    IF chunks = <<>> THEN <<>> ELSE Head(chunks) \o Concatenated(Tail(chunks))

IsContent(c) == c \notin Whitespace
IsLetter(c) == c \notin Whitespace \cup Terminators

\* The content of a text: its characters other than whitespace, in order.
Content(s) == SelectSeq(s, IsContent)

\* The letters of a text in order: what is left when whitespace and the
\* characters of the separator ". " are taken away.
Letters(s) == SelectSeq(s, IsLetter)

ChunkingDone == chunking.phase = "done"

\* C18: in chunkByFixedSize the window start index strictly increases on
\* every iteration of the loop, for every chunkSize >= 1 and chunkOverlap >= 0
\* (chunkOverlap = chunkSize and chunkOverlap > chunkSize included), so the
\* loop always ends.
C18_FixedStartIndexIncreases ==
    [][(chunking.phase = "fixed" /\ chunking'.phase = "fixed")
          => chunking'.startIndex > chunking.startIndex]_vars

\* C19: for fixed with zero overlap, sentence, paragraph and recursive with
\* zero overlap, the chunks concatenated in order hold the content of the text
\* in its order: but for whitespace (and, in the recursive strategy, the
\* characters of its separators) no character is dropped, duplicated or
\* reordered.
C19_ChunksReconstructContent ==
    (/\ ChunkingDone
     /\ chunking.strategy \in { "fixed", "recursive" } => chunking.chunkOverlap = 0)
    => IF chunking.strategy = "recursive"
       THEN Letters(Concatenated(chunking.chunks)) = Letters(chunking.text)
       ELSE Content(Concatenated(chunking.chunks)) = Content(chunking.text)

\* The sentences of the text as chunkBySentence packs them.
TrimmedSentences(text) == { Trim(Sentences(text)[i]) : i \in DOMAIN Sentences(text) }

\* C20: no chunk before the overlap is injected is longer than chunkSize,
\* unless, in the sentence strategy, it is one sentence that alone is longer
\* than chunkSize.
C20_PreOverlapChunksWithinChunkSize ==
    chunking.phase \in { "fixed", "done" }
    => \A i \in DOMAIN chunking.preOverlap :
          \/ Len(chunking.preOverlap[i]) <= chunking.chunkSize
          \/ /\ chunking.strategy = "sentence"
             /\ chunking.preOverlap[i] \in TrimmedSentences(chunking.text)

\* C20 witness: the recursive strategy has cut a text into several chunks,
\* one of them exactly chunkSize long.
C20_Witness ==
    /\ ChunkingDone
    /\ chunking.strategy = "recursive"
    /\ Len(chunking.preOverlap) >= 2
    /\ \E i \in DOMAIN chunking.preOverlap :
          Len(chunking.preOverlap[i]) = chunking.chunkSize

\* Whether p is a prefix of s.
IsPrefix(p, s) == Len(p) <= Len(s) /\ SubSeq(s, 1, Len(p)) = p

\* C21: in the recursive strategy with chunkOverlap = o > 0 and more than one
\* chunk, every output chunk after the first starts with exactly the last o
\* characters of its predecessor's pre-overlap text (the whole predecessor
\* when it is shorter), also when that suffix begins with whitespace.
C21_ChunkStartsWithPredecessorSuffix ==
    (/\ ChunkingDone
     /\ chunking.strategy = "recursive"
     /\ chunking.chunkOverlap > 0
     /\ Len(chunking.preOverlap) > 1)
    => \A i \in 2..Len(chunking.chunks) :
          IsPrefix(SliceLast(chunking.preOverlap[i - 1], chunking.chunkOverlap),
                   chunking.chunks[i])

\* ---------------------------------------------------------------------
\* generateDocumentHash: properties
\* ---------------------------------------------------------------------

\* C22: generateDocumentHash separates content and filename: the same content
\* and filename feed the same bytes to the digest, and two inputs that differ
\* in the filename or in the content (or in whether a filename is given) never
\* feed the same bytes.
C22_HashSeparatesContentAndFilename ==
    Len(hashing) = 2
    => (hashing[1].digest = hashing[2].digest
          <=> (/\ hashing[1].content = hashing[2].content
               /\ hashing[1].filename = hashing[2].filename))

\* ---------------------------------------------------------------------
\* invokeGraph: properties
\* ---------------------------------------------------------------------
GraphReady == graph.phase = "ready"
Finished(r) == graph.runs[r].phase \in { "returned", "failed" }
EntriesOf(entries) == { entries[i] : i \in DOMAIN entries }
\* The entries run r recorded or its graph returned in its state.
OwnEntries(r) == EntriesOf(graph.runs[r].recorded) \cup { <<r, 0>> }

\* C23: usage entries never persist across the invocations of one graph
\* instance: after every invokeGraph, successful or failed, the accumulator is
\* empty, and the usagePerNode an invocation returns holds only entries
\* recorded during that invocation.
C23_UsageNeverPersistsAcrossInvocations ==
    (GraphReady /\ graph.shared /\ ~graph.overlapped)
    => \A r \in Runs :
          /\ Finished(r) => graph.runs[r].leftBehind = <<>>
          /\ EntriesOf(graph.runs[r].usagePerNode) \subseteq OwnEntries(r)

\* Run r is the only run that is a call on its graph instance.
OwnInstance(r) == \A q \in Runs \ { r } : graph.instanceOf[q] # graph.instanceOf[r]
ReturnedBy(r) == EntriesOf(graph.runs[r].usagePerNode)

RetrievalDone == retrieval.phase = "done"

\* C24 (as stated): the tool never throws; it returns the empty-store
\* diagnostic without a search when the store holds 0 documents, the no-match
\* diagnostic when the search returns no result, the JSON array of
\* {content, metadata} otherwise, and a diagnostic when the count or the
\* search fails.
C24_ToolAnswersByCase ==
    RetrievalDone
    => /\ retrieval.output.kind # "threw"
       /\ retrieval.failed = "count"
            => retrieval.output.kind \in { "empty_store", "error" }
       /\ retrieval.failed = "search" => retrieval.output.kind = "error"
       /\ (retrieval.failed # "count" /\ retrieval.totalDocs = 0)
            => retrieval.output = EmptyStoreDiagnostic /\ retrieval.searches = 0
       /\ (retrieval.searches = 1 /\ retrieval.failed # "search" /\ retrieval.docs = <<>>)
            => retrieval.output = NoMatchDiagnostic
       /\ (retrieval.searches = 1 /\ retrieval.docs # <<>>)
            => /\ retrieval.output.kind = "json"
               /\ Len(retrieval.output.json) = Len(retrieval.docs)
               /\ \A k \in DOMAIN retrieval.docs :
                     /\ retrieval.output.json[k].content = retrieval.docs[k].pageContent
                     /\ retrieval.output.json[k].metadata = retrieval.docs[k].metadata

\* C24 (amended): as above, but the no-match diagnostic is returned when the
\* search returns no result and the sample documents could be listed; when
\* that listing fails the tool returns the error diagnostic.
C24_ToolAnswersByCaseUnlessListingFails ==
    RetrievalDone
    => /\ retrieval.output.kind # "threw"
       /\ retrieval.failed = "count"
            => retrieval.output.kind \in { "empty_store", "error" }
       /\ retrieval.failed \in { "search", "list" } => retrieval.output.kind = "error"
       /\ (retrieval.failed # "count" /\ retrieval.totalDocs = 0)
            => retrieval.output = EmptyStoreDiagnostic /\ retrieval.searches = 0
       /\ (retrieval.searches = 1 /\ retrieval.failed = "" /\ retrieval.docs = <<>>)
            => retrieval.output = NoMatchDiagnostic
       /\ (retrieval.searches = 1 /\ retrieval.docs # <<>>)
            => /\ retrieval.output.kind = "json"
               /\ Len(retrieval.output.json) = Len(retrieval.docs)
               /\ \A k \in DOMAIN retrieval.docs :
                     /\ retrieval.output.json[k].content = retrieval.docs[k].pageContent
                     /\ retrieval.output.json[k].metadata = retrieval.docs[k].metadata

\* C24 witness: the search found nothing, the listing of the sample documents
\* failed, and the tool returned the error diagnostic.
C24_Witness ==
    /\ RetrievalDone
    /\ retrieval.searches = 1 /\ retrieval.listings = 1
    /\ retrieval.failed = "list"
    /\ retrieval.output = ErrorDiagnostic

\* ---------------------------------------------------------------------
\* addDocumentsFromFiles: order of the store writes
\* ---------------------------------------------------------------------
IsWrite(o) == o.op \in { "delete", "add" }
\* The deletes and upserts of the running or last call of caller s, in order.
Writes(s) == SelectSeq(storeOps[s], IsWrite)

\* The number of chunks of the files the loop of caller s has chunked so far.
RECURSIVE ChunksProduced(_, _)
ChunksProduced(s, n) ==
    IF n = 0 THEN 0
    ELSE ChunksProduced(s, n - 1)
           + (IF call[s].log[n].decision = "chunked"
              THEN Len(chunkText(parseDocument(call[s].files[n].content,
                                               call[s].files[n].type).text))
              ELSE 0)

\* C25: no vector-store write happens while files are still being processed;
\* the delete of the ids queued for replacement comes only after the last
\* file, and before the single batched upsert of the call; added is the
\* number of chunks produced across all files.
C25_WritesAfterLoopDeleteBeforeUpsert ==
    \A s \in Callers :
      /\ InLoop(s) => (Writes(s) = <<>> /\ call[s].fileIndex < Len(call[s].files))
      /\ Writes(s) # <<>> => Len(call[s].log) = Len(call[s].files)
      /\ Len(Writes(s)) <= 2
      /\ Len(Writes(s)) = 2 => (Writes(s)[1].op = "delete" /\ Writes(s)[2].op = "add")
      /\ \A k \in DOMAIN Writes(s) :
            Writes(s)[k].op = "add" => Writes(s)[k].ids = Ids(call[s].allDocuments)
      /\ (call[s].phase = "returned" /\ outcome[s].status = "returned")
            => outcome[s].added = ChunksProduced(s, Len(call[s].log))

\* C25 witness: a call over several files replaced a stored document: it
\* deleted the old chunks, then upserted its batch, and returned.
C25_Witness ==
    /\ call["a"].phase = "returned" /\ outcome["a"].status = "returned"
    /\ Len(call["a"].files) >= 2
    /\ Len(Writes("a")) = 2
    /\ outcome["a"].added >= 2

\* C26: starting from an empty store, after any sequence of calls that all
\* use duplicateHandling = skip (one after the other, no other method of the
\* controller being called), the store holds at most one chunk set per
\* documentHash: no two stored chunks have the same documentHash and the same
\* chunkIndex, also when one call holds two files of identical bytes and filename.
C26_OneChunkSetPerHashUnderSkip ==
    (used.onlySkip /\ used.ops = 0 /\ \A s \in Callers : ~InFlight(s))
    => \A c, d \in store :
          (c.documentHash = d.documentHash /\ c.chunkIndex = d.chunkIndex) => c = d

\* The sum of the numbers of letters of the chunks.
RECURSIVE LettersIn(_)
LettersIn(chunks) ==
    IF chunks = <<>> THEN 0
    ELSE Len(Letters(Head(chunks))) + LettersIn(Tail(chunks))

\* C27: the recursive strategy splits the text without any overlap and
\* injects the overlap afterwards: the pre-overlap chunks are consecutive
\* pieces of the text (their letters, in order, are the letters of the text),
\* and the output chunks repeat no more than chunkOverlap characters of the
\* text per pair of adjacent chunks, also when the separators are exhausted
\* and the text is cut by fixed-size windows.
C27_RecursiveOverlapBoundedByChunkOverlap ==
    (ChunkingDone /\ chunking.strategy = "recursive")
    => /\ Letters(Concatenated(chunking.preOverlap)) = Letters(chunking.text)
       /\ Len(chunking.chunks) > 1
            => LettersIn(chunking.chunks)
                  <= Len(Letters(chunking.text))
                       + chunking.chunkOverlap * (Len(chunking.chunks) - 1)

\* ------------------------------------------------------------------------
\* The message history of an invokeAgent run
\* ------------------------------------------------------------------------
InputMessages == <<HumanMessage>>
HistoryPrefix ==
    IF params.systemPrompt THEN <<SystemMessage>> \o InputMessages ELSE InputMessages
\* The number of the iteration whose response is at index i.
IterationOf(i) == Cardinality({ j \in AiMessages : j <= i })
\* The history is the prefix, then per iteration the response followed by
\* the tool-result messages of its calls executed so far, in call order and
\* with the calls' ids; a response follows only a completed iteration.
HistoryShape ==
    /\ IsPrefix(HistoryPrefix, allMessages)
    /\ \A i \in DOMAIN allMessages :
          i > Len(HistoryPrefix) => allMessages[i].role \in {"ai", "tool"}
    /\ Len(allMessages) > Len(HistoryPrefix)
          => allMessages[Len(HistoryPrefix) + 1].role = "ai"
    /\ Cardinality(AiMessages) = iteration
    /\ \A i \in AiMessages :
          LET calls == allMessages[i].tool_calls
          IN /\ \A k \in DOMAIN calls : calls[k].id = <<"call", IterationOf(i), k>>
             /\ i + Executed(i) <= Len(allMessages)
             /\ \A k \in 1..Executed(i) :
                   /\ allMessages[i + k].role = "tool"
                   /\ allMessages[i + k].tool_call_id = calls[k].id
             /\ i + Executed(i) < Len(allMessages)
                   => /\ Executed(i) = Len(calls)
                      /\ allMessages[i + Len(calls) + 1].role = "ai"
\* What a finished run returns of a history: all of it but the system prompt.
ReturnedHistory ==
    SubSeq(allMessages, Len(HistoryPrefix) - Len(InputMessages) + 1, Len(allMessages))
AppendOnly == IsPrefix(allMessages, allMessages')

\* C28 as stated: the history only grows by appending and has the shape
\* above, and every finished run returns the input messages followed by the
\* responses and tool-result messages of its iterations.
C28_ReturnedMessagesAreInputsThenIterations ==
    /\ [](pc # "start" => HistoryShape)
    /\ [](result.returned =>
            /\ IsPrefix(InputMessages, result.messages)
            /\ result.messages = ReturnedHistory)
    /\ [][AppendOnly]_vars

\* C28: the message history of an invokeAgent run only grows by appending;
\* it is the optional system prompt and the input messages, then per
\* iteration the model response followed by exactly one tool-result message
\* per tool call of that response, in call order and carrying its
\* tool_call_id, every tool execution of an iteration being complete before
\* the next response. A run with tools returns this history without the
\* system prompt; a run without tools returns the single response of its
\* one model call and not the input messages.
C28_HistoryShapeAndReturnedMessages ==
    /\ [](pc # "start" => HistoryShape)
    /\ [](result.returned =>
            IF Len(params.tools) > 0
            THEN /\ result.messages = ReturnedHistory
                 /\ \A i \in AiMessages : Executed(i) = Len(allMessages[i].tool_calls)
            ELSE result.messages = <<result.response>>)
    /\ [][AppendOnly]_vars

\* A returned run with a system prompt whose first response carried two tool
\* calls and whose last response carried none.
C28_Witness ==
    /\ result.returned /\ params.systemPrompt /\ iteration >= 3
    /\ \E i \in AiMessages : Len(allMessages[i].tool_calls) = 2
    /\ Last(allMessages).tool_calls = <<>> /\ Last(allMessages).role = "ai"
    /\ result.messages = Tail(allMessages)

\* A returned run without tools: its messages are the response alone.
C28_NoToolsReturnsResponseOnly ==
    /\ result.returned /\ Len(params.tools) = 0
    /\ result.messages = <<result.response>>
    /\ ~IsPrefix(InputMessages, result.messages)

\* ------------------------------------------------------------------------
\* The structured-output extraction at the end of the loop
\* ------------------------------------------------------------------------
IsStructured(v) == v.kind = "structured"
LoopEnded == pc = "done" /\ Len(params.tools) > 0

\* C29: when the loop has ended, by a response without tool calls or by the
\* cap, and structuredDataAttributes were supplied, the run has made exactly
\* one schema-constrained model call, after the loop's tool-bound calls and
\* over the full history (system prompt included); response and
\* structuredData are that call's payload; the returned messages are the
\* history without the system prompt, and the citations with their links and
\* the usage entries of the loop are returned as the loop left them, one
\* entry per iteration at most. Without structuredDataAttributes no such call
\* is made.
C29_StructuredExtractionKeepsLoopOutcome ==
    LoopEnded =>
        /\ result.returned
        /\ Len(SelectSeq(invocations, IsStructured)) = IF result.structuredData THEN 1 ELSE 0
        /\ Len(ToolBound) = iteration
        /\ result.messages = ReturnedHistory
        /\ result.citations = OptionalList(citations)
        /\ result.usagePerNode = OptionalList(usageEntries)
        /\ Len(usageEntries) <= iteration
        /\ result.structuredData =>
              /\ Len(invocations) = iteration + 1
              /\ Last(invocations).kind = "structured"
              /\ Last(invocations).over = allMessages
              /\ result.response = StructuredResponse
              /\ result.response \notin Range(result.messages)

\* A run with a system prompt ended by a response without tool calls after a
\* retrieval; the extraction was made and the result carries a linked
\* citation and the loop's usage entries.
C29_Witness ==
    /\ LoopEnded /\ result.structuredData /\ params.systemPrompt
    /\ Last(allMessages).role = "ai" /\ iteration >= 2
    /\ result.citations # Undefined
    /\ \E k \in DOMAIN result.citations[1] :
          result.citations[1][k].usedByMessageId # NoId
    /\ result.usagePerNode # Undefined
    /\ Len(result.usagePerNode[1]) = iteration

\* The same extraction after the cap: the last history entry is a
\* tool-result message.
C29_CapWitness ==
    /\ LoopEnded /\ result.structuredData
    /\ Last(allMessages).role = "tool" /\ iteration = 5
    /\ Last(invocations).over = allMessages
====
